---- MODULE Spec2Model ----
(***************************************************************************)
(* Verification model of the spectral line-shape synthesis engine of the   *)
(* HITRAN CRDS simulator (spectrum_calc/absorption.py), of the mixture     *)
(* driver of the dashboards (ui/streamlit_app.py), of the download cache   *)
(* (spectrum_calc/cache_manager.py) and of the cached and parallel         *)
(* downloads (optimized_hitran_api.py).                                    *)
(*                                                                         *)
(* Floating-point numbers are modelled as decimal floats m * 10^e with the *)
(* IEEE special values NaN and +/-Inf.  A product or a sum that fits in    *)
(* nine digits is exact, otherwise its operands are cut first; quotients   *)
(* and square roots are truncated to Precision + 1 significant digits.     *)
(***************************************************************************)
EXTENDS Integers, Sequences, FiniteSets, TLC

(***************************************************************************)
(* Bounds of the model.                                                    *)
(***************************************************************************)
\* significant decimal digits kept by an inexact float operation
Precision == 4
\* longest line list handed to one synthesis call
MaxLines == 2
\* most species selected for one mixture calculation
MaxSpecies == 2
\* most calls of the synthesizer in flight at once on one SpectrumCalculator
MaxCalls == 2

(***************************************************************************)
(* Decimal floats.  Every operation evaluates each of its arguments once:  *)
(* Only({e(x) : x \in {a}}) is e(a) with a evaluated before e.             *)
(***************************************************************************)
Only(S) == CHOOSE x \in S : TRUE

RECURSIVE Pow10(_)
Pow10(n) == IF n <= 0 THEN 1 ELSE 10 * Pow10(n - 1)

Abs(n) == IF n < 0 THEN -n ELSE n

Sign(n) == IF n < 0 THEN -1 ELSE IF n = 0 THEN 0 ELSE 1

RECURSIVE Digits(_)
Digits(n) == IF -10 < n /\ n < 10 THEN 1 ELSE 1 + Digits(Abs(n) \div 10)

\* the finite float m * 10^e, normalised (no trailing zero in the mantissa)
RECURSIVE Fin(_, _)
Fin(m, e) ==
    IF m = 0 THEN [k |-> "fin", m |-> 0, e |-> 0]
    ELSE IF Abs(m) % 10 = 0 THEN Fin(Sign(m) * (Abs(m) \div 10), e + 1)
    ELSE [k |-> "fin", m |-> m, e |-> e]

NaN == [k |-> "nan", m |-> 0, e |-> 0]

\* s = 1 for +inf, s = -1 for -inf
Inf(s) == [k |-> "inf", m |-> s, e |-> 0]

\* a raised Python exception, carried in the place of the value
Raised(name) == [k |-> name, m |-> 0, e |-> 0]

\* a Python complex number: only the fact that the value is complex is kept
Complex == [k |-> "complex", m |-> 0, e |-> 0]

\* a float whose value the model does not follow
Opaque == [k |-> "opaque", m |-> 0, e |-> 0]

\* the kinds of value: a finite float, nan, inf, a complex number, exp(m * 10^e)
\* and (m * 10^e) / ln(10) kept in closed form, and a value not followed.
\* Arithmetic is followed on fin, inf and nan; on the other kinds it gives Opaque
ValueKinds == {"fin", "nan", "inf", "complex", "exp", "ln10", "opaque"}

IsFin(a) == a.k = "fin"
IsNaN(a) == a.k = "nan"
IsInf(a) == a.k = "inf"
IsComplex(a) == a.k = "complex"
IsRaised(a) == a.k \notin ValueKinds
\* a real number or an infinity: what the arithmetic below follows
IsReal(a) == a.k \in {"fin", "inf"}
\* the result of an operation one of whose operands is not followed
Unfollowed(x, y) == IF IsComplex(x) \/ IsComplex(y) THEN Complex ELSE Opaque

Zero == [k |-> "fin", m |-> 0, e |-> 0]
One == [k |-> "fin", m |-> 1, e |-> 0]

\* the mantissa cut (toward zero) to at most n digits
RECURSIVE RoundTo(_, _)
RoundTo(a, n) ==
    IF Digits(a.m) <= n THEN a
    ELSE RoundTo([k |-> "fin", m |-> Sign(a.m) * (Abs(a.m) \div 10), e |-> a.e + 1], n)

FNeg(a) ==
    Only({IF x.k \in {"fin", "ln10"} THEN [x EXCEPT !.m = -x.m]
          ELSE IF IsInf(x) THEN Inf(-x.m)
          ELSE IF IsNaN(x) \/ IsComplex(x) THEN x
          ELSE Opaque : x \in {a}})

FAbs(a) ==
    Only({IF IsNaN(x) THEN NaN
          ELSE IF ~IsReal(x) THEN Opaque
          ELSE IF x.m < 0 THEN FNeg(x)
          ELSE x : x \in {a}})

\* the digits kept of an operand of d digits in a product with one of `other`
\* digits that would not fit in nine digits: the shorter operand keeps up to
\* four, the longer one the rest of the nine
KeepDigits(d, other) ==
    IF d = other THEN 4
    ELSE IF d < other THEN (IF d < 4 THEN d ELSE 4)
    ELSE 9 - (IF other < 4 THEN other ELSE 4)

\* the product of two finite floats: a power of ten scales without rounding,
\* a product that fits in nine digits is exact, else the operands are cut
MulFin(x, y) ==
    IF Abs(x.m) = 1 \/ Abs(y.m) = 1 \/ Digits(x.m) + Digits(y.m) <= 9
    THEN Fin(x.m * y.m, x.e + y.e)
    ELSE Only({Fin(u.m * v.m, u.e + v.e) :
                  u \in {RoundTo(x, KeepDigits(Digits(x.m), Digits(y.m)))},
                  v \in {RoundTo(y, KeepDigits(Digits(y.m), Digits(x.m)))}})

FMul(a, b) ==
    Only({IF IsNaN(x) \/ IsNaN(y) THEN NaN
          ELSE IF ~IsReal(x) \/ ~IsReal(y) THEN Unfollowed(x, y)
          ELSE IF IsInf(x) \/ IsInf(y)
               THEN (IF x.m = 0 \/ y.m = 0 THEN NaN ELSE Inf(Sign(x.m) * Sign(y.m)))
          ELSE MulFin(x, y) : x \in {a}, y \in {b}})

\* the sum of two finite non-zero floats, hi the one with the larger exponent
AddFin(hi, lo) ==
    Only({Only({Fin(h.m * Pow10(h.e - l.e) + l.m, l.e) :
                l \in {IF Digits(h.m) + (h.e - lo.e) <= 9 THEN lo
                       ELSE IF Digits(h.m) + (h.e - lo.e) > 18
                            THEN [k |-> "fin", m |-> 0, e |-> h.e]
                       ELSE [k |-> "fin",
                             m |-> Sign(lo.m) *
                                   (Abs(lo.m) \div Pow10(Digits(h.m) + (h.e - lo.e) - 9)),
                             e |-> lo.e + (Digits(h.m) + (h.e - lo.e) - 9)]}}) :
          h \in {IF Digits(hi.m) + (hi.e - lo.e) <= 9 THEN hi
                 ELSE RoundTo(hi, Precision + 1)}})

FAdd(a, b) ==
    Only({IF IsNaN(x) \/ IsNaN(y) THEN NaN
          ELSE IF ~IsReal(x) \/ ~IsReal(y) THEN Unfollowed(x, y)
          ELSE IF IsInf(x) /\ IsInf(y) THEN (IF x.m = y.m THEN x ELSE NaN)
          ELSE IF IsInf(x) THEN x
          ELSE IF IsInf(y) THEN y
          ELSE IF x.m = 0 THEN y
          ELSE IF y.m = 0 THEN x
          ELSE IF x.e >= y.e THEN AddFin(x, y)
          ELSE AddFin(y, x) : x \in {a}, y \in {b}})

FSub(a, b) == FAdd(a, FNeg(b))

\* a < b, a <= b on reals and infinities: every comparison with NaN is false
FLess(a, b) ==
    \E x \in {a}, y \in {b} :
        /\ IsReal(x) /\ IsReal(y)
        /\ IF IsInf(x) /\ IsInf(y) THEN x.m < y.m
           ELSE IF IsInf(x) THEN x.m < 0
           ELSE IF IsInf(y) THEN y.m > 0
           ELSE FSub(x, y).m < 0

FLeq(a, b) ==
    \E x \in {a}, y \in {b} : IsReal(x) /\ IsReal(y) /\ (x = y \/ FLess(x, y))

\* n further digits of the quotient r / b, appended to q
RECURSIVE LongDiv(_, _, _, _)
LongDiv(r, b, n, q) ==
    IF n = 0 THEN q
    ELSE LongDiv((r % b) * 10, b, n - 1, q * 10 + (r \div b))

\* |x| / |y| for finite non-zero x, y of at most 8 digits, truncated to
\* Precision digits after the first
QuotientAbs(x, y) ==
    Only({[m |-> LongDiv(Abs(x.m) * Pow10(dy - dx), Abs(y.m) * Pow10(dx - dy),
                         Precision + 1, 0),
           e |-> (x.e - (IF dx < dy THEN dy - dx ELSE 0))
                 - (y.e - (IF dy < dx THEN dx - dy ELSE 0)) - Precision] :
          dx \in {Digits(x.m)}, dy \in {Digits(y.m)}})

\* numpy's a / b: a division by zero gives inf or nan (and a warning), never raises
FDiv(a, b) ==
    Only({IF IsNaN(x) \/ IsNaN(y) THEN NaN
          ELSE IF ~IsReal(x) \/ ~IsReal(y) THEN Unfollowed(x, y)
          ELSE IF IsInf(x) THEN (IF IsInf(y) THEN NaN
                                 ELSE Inf(x.m * (IF y.m < 0 THEN -1 ELSE 1)))
          ELSE IF IsInf(y) THEN Zero
          ELSE IF y.m = 0 THEN (IF x.m = 0 THEN NaN ELSE Inf(Sign(x.m)))
          ELSE IF x.m = 0 THEN Zero
          ELSE Only({Fin(Sign(x.m) * Sign(y.m) * q.m, q.e) :
                        q \in {QuotientAbs(RoundTo(x, 8), RoundTo(y, 8))}}) :
          x \in {a}, y \in {b}})

\* Python's a / b on floats: a zero divisor raises ZeroDivisionError
PyDiv(a, b) ==
    Only({IF IsFin(y) /\ y.m = 0 THEN Raised("ZeroDivisionError") ELSE FDiv(a, y) :
          y \in {b}})

\* largest r with r * r <= n, by bisection on lo..hi
RECURSIVE IsqrtIn(_, _, _)
IsqrtIn(n, lo, hi) ==
    IF lo >= hi THEN lo
    ELSE IF ((lo + hi + 1) \div 2) * ((lo + hi + 1) \div 2) <= n
         THEN IsqrtIn(n, (lo + hi + 1) \div 2, hi)
    ELSE IsqrtIn(n, lo, ((lo + hi + 1) \div 2) - 1)

Isqrt(n) == IsqrtIn(n, 0, 31622)

\* the square root of a finite float > 0 of at most Precision + 1 digits
SqrtFin(x) ==
    Only({Fin(Isqrt(m1 * Pow10(2 * ((9 - Digits(m1)) \div 2))),
              ((IF x.e % 2 # 0 THEN x.e - 1 ELSE x.e) \div 2) - ((9 - Digits(m1)) \div 2)) :
          m1 \in {IF x.e % 2 # 0 THEN x.m * 10 ELSE x.m}})

\* numpy's sqrt: nan (and a warning) for a negative argument
FSqrt(a) ==
    Only({IF IsNaN(x) THEN NaN
          ELSE IF ~IsReal(x) THEN Opaque
          ELSE IF IsInf(x) THEN (IF x.m > 0 THEN x ELSE NaN)
          ELSE IF x.m < 0 THEN NaN
          ELSE IF x.m = 0 THEN Zero
          ELSE SqrtFin(RoundTo(x, Precision + 1)) : x \in {a}})

\* Python's a ** 0.5 on floats: a negative base gives a complex number
PyPowHalf(a) ==
    Only({IF IsReal(x) /\ x.m < 0 THEN Complex ELSE FSqrt(x) : x \in {a}})

\* the largest integer whose exponential is finite, and the largest x with exp(-x) > 0
ExpOverflow == 709
ExpUnderflow == 745
\* the largest integer x with exp(-x) a normal float (carrying 53 bits)
ExpNormal == 708
\* exp(a) rounds to 1.0 for |a| below 2^-54
ExpRoundsToOne == Fin(55, -18)

\* numpy's exp: exp(0) = 1, overflow to inf, underflow to 0, else exp(a) in closed form
FExp(a) ==
    Only({IF IsNaN(x) THEN NaN
          ELSE IF ~IsReal(x) THEN Opaque
          ELSE IF IsInf(x) THEN (IF x.m > 0 THEN x ELSE Zero)
          ELSE IF x.m = 0 THEN One
          ELSE IF FLess(FAbs(x), ExpRoundsToOne) THEN One
          ELSE IF FLess(Fin(ExpOverflow, 0), x) THEN Inf(1)
          ELSE IF FLess(x, Fin(-ExpUnderflow, 0)) THEN Zero
          ELSE [k |-> "exp", m |-> x.m, e |-> x.e] : x \in {a}})

\* numpy's log10: log10(0) = -inf, nan below zero, log10(10^e) = e,
\* log10(exp(a)) = a / ln(10); the logarithm of another finite float is not followed
FLog10(a) ==
    Only({IF IsNaN(t) THEN NaN
          ELSE IF t.k = "exp" THEN [k |-> "ln10", m |-> t.m, e |-> t.e]
          ELSE IF ~IsReal(t) THEN Opaque
          ELSE IF IsInf(t) THEN (IF t.m > 0 THEN t ELSE NaN)
          ELSE IF t.m < 0 THEN NaN
          ELSE IF t.m = 0 THEN Inf(-1)
          ELSE IF t.m = 1 THEN Fin(t.e, 0)
          ELSE Opaque : t \in {a}})

(***************************************************************************)
(* SpectrumCalculator: the physical constants of __init__.                 *)
(***************************************************************************)
c == Fin(299792458, 0)
k_B == Fin(1380649, -29)
N_A == Fin(602214076, 15)

\* the default of calculate_lorentz_width's ref_temp
ref_temp == Fin(296, 0)

Pi == Fin(31415926, -7)

SqrtPi == FSqrt(Pi)

\* the unit scaling applied to every line's contribution
ScalingFactor == Fin(1, 20)

(***************************************************************************)
(* scipy.special.wofz, real part, for Im z >= 0: tabulated in units of     *)
(* 1e-4 at Re z, Im z in steps of 1/2 up to 4, the asymptote               *)
(* y / (sqrt(pi) (x^2 + y^2)) beyond, 0 at infinity, nan for nan.          *)
(***************************************************************************)
WofzTable ==
    << <<10000, 7788, 3679, 1054,  183,   19,    1,    0,    0>>,
       << 6157, 5332, 3549, 1966, 1034,  584,  371,  259,  192>>,
       << 4276, 3912, 3047, 2118, 1402,  938,  653,  477,  363>>,
       << 3216, 3034, 2571, 2011, 1504, 1112,  832,  636,  499>>,
       << 2554, 2453, 2185, 1833, 1480, 1172,  927,  739,  597>>,
       << 2108, 2047, 1881, 1651, 1402, 1167,  964,  796,  661>>,
       << 1790, 1751, 1643, 1486, 1308, 1129,  964,  820,  698>>,
       << 1553, 1527, 1453, 1342, 1212, 1075,  943,  821,  714>>,
       << 1370, 1352, 1299, 1219, 1121, 1016,  909,  808,  716>> >>

\* floor of a finite float >= 0
FloorInt(a) ==
    Only({IF x.e >= 0 THEN x.m * Pow10(x.e) ELSE x.m \div Pow10(-x.e) : x \in {a}})

\* a finite float >= 0 below 4.25, rounded to the nearest multiple of 1/2, in halves
HalfSteps(a) == FloorInt(FAdd(FMul(Fin(2, 0), a), Fin(5, -1)))

InTable(a) == \E x \in {a} : IsFin(x) /\ FLess(x, Fin(425, -2))

WofzReal(a, b) ==
    Only({IF IsNaN(x) \/ IsNaN(y) THEN NaN
          ELSE IF ~IsReal(x) \/ ~IsReal(y) THEN Opaque
          ELSE IF IsInf(x) \/ IsInf(y) THEN Zero
          ELSE IF InTable(x) /\ InTable(y)
               THEN Fin(WofzTable[HalfSteps(y) + 1][HalfSteps(x) + 1], -4)
          ELSE FDiv(y, FMul(SqrtPi, FAdd(FMul(x, x), FMul(y, y)))) :
          x \in {FAbs(a)}, y \in {b}})

(***************************************************************************)
(* SpectrumCalculator: the line-shape functions.                           *)
(***************************************************************************)
\* a faulty variant of VoigtAt: the offset from the center is taken one
\* Doppler width too far to the right
VoigtAtShifted(f, center_freq, y, gamma_doppler) ==
    FDiv(WofzReal(FAdd(FDiv(FSub(f, center_freq), gamma_doppler), One), y),
         FMul(gamma_doppler, SqrtPi))

\* one element of voigt_profile's array, y being the width ratio
VoigtAt(f, center_freq, y, gamma_doppler) ==
    FDiv(WofzReal(FDiv(FSub(f, center_freq), gamma_doppler), y),
         FMul(gamma_doppler, SqrtPi))

\* [error, value]: the exception raised ("none" if none) and the profile array.
\* numpy tells whether the two widths are numpy scalars, as they are inside
\* calculate_absorption_spectrum, or Python floats, whose division by zero raises
voigt_profile(frequency, center_freq, gamma_lorentz, gamma_doppler, numpy) ==
    Only({IF IsRaised(y) THEN [error |-> y.k, value |-> <<>>]
          ELSE [error |-> "none",
                value |-> [j \in 1..Len(frequency) |->
                              VoigtAt(frequency[j], center_freq, y, gamma_doppler)]] :
          y \in {IF numpy THEN FDiv(gamma_lorentz, gamma_doppler)
                 ELSE PyDiv(gamma_lorentz, gamma_doppler)}})

calculate_doppler_width(center_freq, temperature, molecular_mass) ==
    Only({IF IsRaised(radicand) THEN radicand
          ELSE FMul(FDiv(center_freq, c), FSqrt(radicand)) :
          radicand \in {PyDiv(FMul(FMul(FMul(Fin(2, 0), k_B), temperature), N_A),
                              FMul(molecular_mass, Fin(1, -3)))}})

\* a faulty variant of calculate_lorentz_width: the coefficient is divided by
\* the pressure
LorentzWidthPerPressure(pressure_broadening, pressure, temperature) ==
    Only({IF IsRaised(ratio) THEN ratio
          ELSE FMul(FDiv(pressure_broadening, pressure), PyPowHalf(ratio)) :
          ratio \in {PyDiv(ref_temp, temperature)}})

calculate_lorentz_width(pressure_broadening, pressure, temperature) ==
    Only({IF IsRaised(ratio) THEN ratio
          ELSE FMul(FMul(pressure_broadening, pressure), PyPowHalf(ratio)) :
          ratio \in {PyDiv(ref_temp, temperature)}})

(***************************************************************************)
(* SpectrumCalculator.calculate_absorption_spectrum.                       *)
(***************************************************************************)
molecular_masses ==
    [H2O |-> Fin(18015, -3), CO2 |-> Fin(4401, -2), CH4 |-> Fin(1604, -2),
     NH3 |-> Fin(1703, -2), N2O |-> Fin(4401, -2), CO |-> Fin(2801, -2),
     O3 |-> Fin(47998, -3), SO2 |-> Fin(64066, -3), NO2 |-> Fin(46006, -3),
     HNO3 |-> Fin(6301, -2), O2 |-> Fin(31998, -3), NO |-> Fin(30006, -3),
     OH |-> Fin(17007, -3), HF |-> Fin(20006, -3), HCl |-> Fin(36458, -3),
     HBr |-> Fin(80912, -3), HI |-> Fin(127912, -3), ClO |-> Fin(51452, -3),
     OCS |-> Fin(60076, -3), H2CO |-> Fin(30026, -3), HOCl |-> Fin(5246, -2),
     N2 |-> Fin(28014, -3), HCN |-> Fin(27026, -3), CH3Cl |-> Fin(50487, -3),
     H2O2 |-> Fin(34015, -3), C2H2 |-> Fin(26037, -3), C2H6 |-> Fin(30069, -3),
     PH3 |-> Fin(33998, -3)]

\* a faulty variant of MolecularMass: molecular_masses[molecule], which raises
\* for a name the table lacks
MolecularMassStrict(molecule) ==
    IF molecule \in DOMAIN molecular_masses THEN molecular_masses[molecule]
    ELSE Raised("KeyError")

\* molecular_masses.get(molecule, 18.015)
MolecularMass(molecule) ==
    IF molecule \in DOMAIN molecular_masses THEN molecular_masses[molecule]
    ELSE Fin(18015, -3)

\* a faulty variant of ZerosLike: np.ones_like(frequency_grid)
OnesLike(frequency_grid) == [j \in 1..Len(frequency_grid) |-> One]

\* np.zeros_like(frequency_grid)
ZerosLike(frequency_grid) == [j \in 1..Len(frequency_grid) |-> Zero]

\* the fields of a line record, in the order the loop body reads them
LineKeys == <<"nu", "sw", "gamma_air">>

AllKeys == {"nu", "sw", "gamma_air"}

\* the first field the loop body reads that the record lacks, "none" if it has all
MissingKey(line) ==
    IF "nu" \notin line.keys THEN "nu"
    ELSE IF "sw" \notin line.keys THEN "sw"
    ELSE IF "gamma_air" \notin line.keys THEN "gamma_air"
    ELSE "none"

\* a faulty variant of Contribution: the intensity factor is left out
ContributionNoIntensity(intensity, concentration, shape) ==
    FMul(FMul(concentration, shape), ScalingFactor)

\* a faulty variant of Contribution: the concentration is applied twice
ContributionSquared(intensity, concentration, shape) ==
    FMul(FMul(FMul(FMul(intensity, concentration), concentration), shape),
         ScalingFactor)

\* a faulty variant of Contribution: the concentration factor is left out
ContributionNoConcentration(intensity, concentration, shape) ==
    FMul(FMul(intensity, shape), ScalingFactor)

\* a faulty variant of Contribution: the scaling constant is left out
ContributionNoScale(intensity, concentration, shape) ==
    FMul(FMul(intensity, concentration), shape)

\* intensity * concentration * line_shape * 1e20 at one grid point
Contribution(intensity, concentration, shape) ==
    FMul(FMul(FMul(intensity, concentration), shape), ScalingFactor)

\* the loop body after the three fields of `line` were read: the widths, the
\* profile and the accumulation
AddLine(acc, line, a) ==
    Only({
        IF IsRaised(gamma_d) THEN [error |-> gamma_d.k, acc |-> acc]
        ELSE IF IsRaised(gamma_l) THEN [error |-> gamma_l.k, acc |-> acc]
        ELSE Only({
            IF line_shape.error # "none" THEN [error |-> line_shape.error, acc |-> acc]
            ELSE [error |-> "none",
                  acc |-> [j \in 1..Len(acc) |->
                              FAdd(acc[j], Contribution(line.sw, a.concentration,
                                                        line_shape.value[j]))]] :
            line_shape \in {voigt_profile(a.frequency_grid, line.nu,
                                          gamma_l, gamma_d, TRUE)}}) :
        gamma_d \in {calculate_doppler_width(line.nu, a.temperature,
                                             MolecularMass(a.molecule))},
        gamma_l \in {calculate_lorentz_width(line.gamma_air, a.pressure,
                                             a.temperature)}})

\* a faulty variant of ProcessLine: a line whose center lies beyond both ends
\* of the grid is left out
ProcessLineWindowed(acc, line, a) ==
    IF MissingKey(line) # "none" THEN [error |-> "KeyError", acc |-> acc]
    ELSE IF \/ \A j \in 1..Len(a.frequency_grid) : FLess(a.frequency_grid[j], line.nu)
            \/ \A j \in 1..Len(a.frequency_grid) : FLess(line.nu, a.frequency_grid[j])
    THEN [error |-> "none", acc |-> acc]
    ELSE AddLine(acc, line, a)

\* a faulty variant of ProcessLine: the contribution of the line is assigned
\* to the accumulator, not added to it
ProcessLineAssign(acc, line, a) ==
    IF MissingKey(line) # "none" THEN [error |-> "KeyError", acc |-> acc]
    ELSE AddLine(ZerosLike(acc), line, a)

\* a faulty variant of ProcessLine: a record lacking a field is skipped
ProcessLineSkip(acc, line, a) ==
    IF MissingKey(line) # "none" THEN [error |-> "none", acc |-> acc]
    ELSE AddLine(acc, line, a)

\* one pass of the loop body over `line`: [error, acc], the exception raised
\* ("none" if none) and the accumulator after the pass
ProcessLine(acc, line, a) ==
    IF MissingKey(line) # "none" THEN [error |-> "KeyError", acc |-> acc]
    ELSE AddLine(acc, line, a)

\* a faulty variant of ArgsAfterAdd: the accumulator is the grid's own array, so
\* the in-place addition lands in the caller's grid
ArgsAfterAddAliased(a, acc) == [a EXCEPT !.frequency_grid = acc]

\* the caller's arguments after `absorption_coeff += ...` has written `acc` in
\* place: the array written is the one np.zeros_like allocated, a different
\* object from frequency_grid, and the line records are only read
ArgsAfterAdd(a, acc) == a

\* a faulty variant of Storage: one accumulator kept on the calculator and
\* shared by all its calls
StorageShared(f) == 1

\* the array the name absorption_coeff is bound to in call frame f: a local of
\* that frame, allocated anew by np.zeros_like at each call; the calculator
\* itself holds the three constants only
Storage(f) == f

\* a faulty variant of Transmittance: the sign of the exponent is lost
TransmittanceNoSign(absorption, path_length) ==
    [j \in 1..Len(absorption) |-> FExp(FMul(absorption[j], path_length))]

\* Beer-Lambert: np.exp(-absorption_coeff * path_length)
Transmittance(absorption, path_length) ==
    [j \in 1..Len(absorption) |-> FExp(FMul(FNeg(absorption[j]), path_length))]

\* a faulty variant of Absorbance: the natural logarithm, -np.log(transmittance)
AbsorbanceNatural(transmittance) ==
    [j \in 1..Len(transmittance) |->
        IF transmittance[j].k = "exp"
        THEN FNeg(Fin(transmittance[j].m, transmittance[j].e))
        ELSE FNeg(FLog10(transmittance[j]))]

\* -np.log10(transmittance)
Absorbance(transmittance) ==
    [j \in 1..Len(transmittance) |-> FNeg(FLog10(transmittance[j]))]

\* a faulty variant of SpectrumResult: the grid is left out of the dictionary
SpectrumResultNoGrid(frequency_grid, absorption, path_length) ==
    Only({[absorption_coeff |-> absorption,
           transmittance |-> transmittance,
           absorbance |-> Absorbance(transmittance)] :
          transmittance \in {Transmittance(absorption, path_length)}})

\* the dictionary the call returns
SpectrumResult(frequency_grid, absorption, path_length) ==
    Only({[frequency |-> frequency_grid,
           absorption_coeff |-> absorption,
           transmittance |-> transmittance,
           absorbance |-> Absorbance(transmittance)] :
          transmittance \in {Transmittance(absorption, path_length)}})

\* the accumulator after the loop has run over lines[n + 1 ..], or the exception
RECURSIVE LoopFrom(_, _, _)
LoopFrom(acc, n, a) ==
    IF n >= Len(a.hitran_data) THEN [error |-> "none", acc |-> acc]
    ELSE Only({IF r.error # "none" THEN r ELSE LoopFrom(r.acc, n + 1, a) :
               r \in {ProcessLine(acc, a.hitran_data[n + 1], a)}})

\* the whole call as a function of its arguments: [error, value], value holding
\* the returned dictionary, or nothing when the call raised
calculate_absorption_spectrum(a) ==
    Only({IF r.error # "none" THEN [error |-> r.error, value |-> <<>>]
          ELSE [error |-> "none",
                value |-> <<SpectrumResult(a.frequency_grid, r.acc, a.path_length)>>] :
          r \in {LoopFrom(ZerosLike(a.frequency_grid), 0, a)}})

(***************************************************************************)
(* The inputs the model draws from.                                        *)
(***************************************************************************)
Line(nu, sw, gamma_air, keys) ==
    [nu |-> nu, sw |-> sw, gamma_air |-> gamma_air, keys |-> keys]

\* the strongest H2O line of debug_calculation.py, and a weaker neighbour
LineA == Line(Fin(664888, -2), Fin(1, -20), Fin(5, -2), AllKeys)
LineB == Line(Fin(66489, -1), Fin(2, -21), Fin(8, -2), AllKeys)
\* a line of zero intensity
LineZ == Line(Fin(664888, -2), Zero, Fin(5, -2), AllKeys)
\* a line outside every grid below
LineFar == Line(Fin(66505, -1), Fin(3, -20), Fin(5, -2), AllKeys)
\* a line with center frequency 0, and a record lacking the field sw
LineNu0 == Line(Zero, Fin(1, -20), Fin(5, -2), AllKeys)
LineNoSw == Line(Fin(664888, -2), Zero, Fin(5, -2), {"nu", "gamma_air"})

ValidLines == {LineA, LineB, LineZ, LineFar}
Lines == ValidLines \cup {LineNu0, LineNoSw}

LineLists == UNION {[1..n -> Lines] : n \in 0..MaxLines}

GridSym == <<Fin(664886, -2), Fin(664888, -2), Fin(66489, -1)>>
GridOne == <<Fin(664888, -2)>>
GridEmpty == <<>>
GridUnsorted == <<Fin(66489, -1), Fin(664886, -2), Fin(664888, -2)>>

ValidGrids == {GridSym, GridOne}
Grids == ValidGrids \cup {GridEmpty, GridUnsorted}

ValidTemperatures == {Fin(29615, -2)}
Temperatures == ValidTemperatures \cup {Zero, Fin(-10, 0)}

Pressures == {Fin(1, 0)}

Concentrations == {Zero, Fin(1, -3), Fin(2, -3)}

PathLengths == {Fin(30000, 0)}

\* SF6 is a molecule of constants.HITRAN_MOLECULES absent from molecular_masses
Molecules == {"H2O", "CO2", "SF6"}

\* a line of intensity 1e-39, and calls whose optical depth is beyond the range
\* of exp (a pure gas) or below the spacing of the floats near 1 (the weak line)
LineWeak == Line(Fin(664888, -2), Fin(1, -39), Fin(5, -2), AllKeys)

OpticalDepthArgs ==
    [hitran_data : {<<LineA>>, <<LineWeak>>, <<LineWeak, LineA>>},
     frequency_grid : {GridSym}, temperature : ValidTemperatures,
     pressure : Pressures, concentration : {Fin(1, -3), One},
     path_length : PathLengths, molecule : {"H2O"}]

CallArgs ==
    [hitran_data : LineLists, frequency_grid : Grids, temperature : Temperatures,
     pressure : Pressures, concentration : Concentrations,
     path_length : PathLengths, molecule : Molecules]
    \cup OpticalDepthArgs

\* the arguments of the calls made side by side on one SpectrumCalculator
SessionArgs ==
    {a \in CallArgs :
        /\ a.hitran_data \in {<<>>, <<LineA>>, <<LineA, LineB>>, <<LineA, LineNoSw>>}
        /\ a.frequency_grid \in {GridSym, GridOne}
        /\ a.temperature \in ValidTemperatures
        /\ a.concentration = Fin(1, -3)
        /\ a.molecule = "H2O"
        /\ (a.frequency_grid = GridOne => a.hitran_data = <<LineA>>)}

\* strictly monotonic (increasing or decreasing), length >= 1
Monotonic(grid) ==
    /\ Len(grid) >= 1
    /\ \/ \A j \in 1..Len(grid) - 1 : FLess(grid[j], grid[j + 1])
       \/ \A j \in 1..Len(grid) - 1 : FLess(grid[j + 1], grid[j])

\* the preconditions of the data model: what the spec calls valid inputs
ValidLine(line) ==
    /\ line.keys = AllKeys
    /\ IsFin(line.nu) /\ line.nu.m > 0
    /\ IsFin(line.sw) /\ line.sw.m >= 0
    /\ IsFin(line.gamma_air) /\ line.gamma_air.m >= 0

ValidArgs(a) ==
    /\ \A n \in 1..Len(a.hitran_data) : ValidLine(a.hitran_data[n])
    /\ Monotonic(a.frequency_grid)
    /\ IsFin(a.temperature) /\ a.temperature.m > 0
    /\ IsFin(a.pressure) /\ a.pressure.m > 0
    /\ IsFin(a.concentration) /\ a.concentration.m >= 0
    /\ FLeq(a.concentration, One)
    /\ IsFin(a.path_length) /\ a.path_length.m > 0

\* the arguments of the direct calls of the line-shape functions
DopplerArgs ==
    [center_freq : {Fin(664888, -2), Zero},
     temperature : Temperatures \cup {Fin(200, 0), Fin(400, 0)},
     molecular_mass : {Fin(18015, -3), Fin(4401, -2), Zero, Fin(-1, 0)}]

LorentzArgs ==
    [pressure_broadening : {Fin(5, -2), Fin(8, -2)},
     pressure : {Fin(1, 0), Fin(7, 0), Zero, Fin(5, -1)},
     temperature : Temperatures \cup {Fin(200, 0), Fin(400, 0)}]

VoigtArgs ==
    [frequency : Grids, center_freq : {Fin(664888, -2)},
     gamma_lorentz : {Fin(4998, -5), Zero},
     gamma_doppler : {Fin(11592, -6), Zero},
     numpy : BOOLEAN]

\* the outcome of a call that returns one float: [error, value]
Outcome(v) ==
    IF IsRaised(v) THEN [error |-> v.k, value |-> <<>>]
    ELSE [error |-> "none", value |-> <<v>>]

(***************************************************************************)
(* The mixture calculation of the dashboard (ui/streamlit_app.py; the one  *)
(* of ui/enhanced_streamlit_app_v2.py has the same loop and transform).    *)
(***************************************************************************)
\* the molecules the mixture is selected from
MixMolecules == {"H2O", "CO2", "CH4", "NH3"}

\* the selections: sequences of distinct molecules (a multiselect), not empty
Selections ==
    {sel \in UNION {[1..n -> MixMolecules] : n \in 1..MaxSpecies} :
        \A p, q \in 1..Len(sel) : p # q => sel[p] # sel[q]}

\* the lines of the HITRAN table of each molecule in the wavelength range
TableOf(molecule) ==
    IF molecule = "H2O" THEN <<LineA, LineB>>
    ELSE IF molecule = "CO2" THEN <<LineFar>>
    ELSE IF molecule = "CH4" THEN <<LineB>>
    ELSE <<LineA>>

\* what download_molecule_data may return: None (an unsupported molecule, a
\* failed query), a table without lines, or the molecule's table
Downloads(molecule) ==
    {[none |-> TRUE, lines |-> <<>>],
     [none |-> FALSE, lines |-> <<>>],
     [none |-> FALSE, lines |-> TableOf(molecule)]}

\* a faulty variant of HasData: a table without lines passes
HasDataNotNone(hitran_data) == ~hitran_data.none

\* hitran_data is not None and len(hitran_data) > 0
HasData(hitran_data) == ~hitran_data.none /\ Len(hitran_data.lines) > 0

\* molecule_concentrations[molecule] / 1e9, with the widgets' default ppb values
MoleFraction(molecule) == IF molecule = "H2O" THEN Fin(1, -6) ELSE Fin(4, -7)

\* the arguments of the synthesis call made for one species
SpeciesArgs(molecule, hitran_data) ==
    [hitran_data |-> hitran_data.lines, frequency_grid |-> GridSym,
     temperature |-> Fin(29615, -2), pressure |-> Fin(7, 0),
     concentration |-> MoleFraction(molecule), path_length |-> Fin(30000, 0),
     molecule |-> molecule]

\* a faulty variant of Accumulate: the species' array replaces the sum
AccumulateOverwrite(combined, coeff) == coeff

\* a faulty variant of StoredAfterSum: the running sum is the first stored
\* spectrum's own absorption_coeff array, so the in-place addition lands in it
StoredAfterSumAliased(stored, combined) ==
    IF Len(stored) >= 1
    THEN [stored EXCEPT ![1].spectrum.absorption_coeff = combined]
    ELSE stored

\* the stored per-species results after `combined_absorption += ...` has written
\* `combined` in place: the array written is the one np.zeros_like allocated
\* before the loop, none of the arrays of a stored result
StoredAfterSum(stored, combined) == stored

\* the stored results as seen once a call on `grid` is over: the 'frequency' of
\* every result is the one grid object all the calls of the run were given
SharingGrid(stored, grid) ==
    [n \in 1..Len(stored) |-> [stored[n] EXCEPT !.spectrum.frequency = grid]]

\* combined_absorption += spectrum['absorption_coeff']
Accumulate(combined, coeff) ==
    [j \in 1..Len(combined) |-> FAdd(combined[j], coeff[j])]

(***************************************************************************)
(* The download cache: class HitranCache of spectrum_calc/cache_manager.py *)
(* and its copy in optimized_hitran_api.py.  A cache is the directory of   *)
(* .pkl files, the metadata table in memory and cache_metadata.json.       *)
(* Time is counted in whole days; file sizes are whole megabytes.          *)
(***************************************************************************)
MaxDays == 1

MaxAccess == 2

MaxWorkers == 2

BytesPerMB == 1024 * 1024

\* a wavelength as the caller passes it: the int n or the float n.0
Wavelength(n, float) == [n |-> n, float |-> float]

\* str() of the number inside the f-string: "1500" or "1500.0"
FormatNumber(w) == <<w.n, IF w.float THEN ".0" ELSE "">>

\* the string that is hashed; md5 is taken to be injective on these strings
generate_cache_key(molecule, wavelength_min, wavelength_max) ==
    <<molecule, "_", FormatNumber(wavelength_min), "_",
      FormatNumber(wavelength_max)>>

\* the .pkl file of a key is named by the key
get_cache_path(cache_key) == cache_key

Request(molecule, wavelength_min, wavelength_max) ==
    [molecule |-> molecule, wavelength_min |-> wavelength_min,
     wavelength_max |-> wavelength_max]

KeyOf(request) ==
    generate_cache_key(request.molecule, request.wavelength_min,
                       request.wavelength_max)

ReqH2O == Request("H2O", Wavelength(1500, FALSE), Wavelength(1520, FALSE))

ReqCH4 == Request("CH4", Wavelength(1640, FALSE), Wavelength(1680, FALSE))

\* the molecule of ReqH2O over another range
ReqH2OWide == Request("H2O", Wavelength(1640, FALSE), Wavelength(1680, FALSE))

\* a molecule the API has no id for
ReqSF6 == Request("SF6", Wavelength(1500, FALSE), Wavelength(1520, FALSE))

\* a range whose lower end is zero: 1e7 / wavelength_min divides by zero
ReqZero == Request("CO2", Wavelength(0, FALSE), Wavelength(2020, FALSE))

\* the requests of the sequential cache calls and of the downloads
CacheRequests == {ReqH2O, ReqCH4}

DownloadRequests == {ReqH2O, ReqCH4, ReqSF6, ReqZero}

PoolRequests == {ReqH2O, ReqCH4, ReqH2OWide}

CacheKeys == {KeyOf(request) : request \in DownloadRequests \cup PoolRequests}

\* the line tables that are cached: a name and the size of the pickle
TableData(name, megabytes) ==
    [kind |-> "table", name |-> name, bytes |-> megabytes * BytesPerMB]

CacheData == {TableData("small", 1), TableData("large", 2)}

None == [kind |-> "None", name |-> "None", bytes |-> 0]

\* the content of a .pkl file: absent, a complete pickle, or what open(.., 'wb')
\* followed by a failed pickle.dump leaves behind
NoFile == [kind |-> "absent", data |-> None]

Pickled(data) == [kind |-> "pickle", data |-> data]

Truncated == [kind |-> "truncated", data |-> None]

\* os.path.exists
Exists(file) == file.kind # "absent"

\* os.path.getsize
GetSize(file) == file.data.bytes

\* created_time of a row: the day, and whether the cell is still the isoformat
\* string (pd.read_json turns the column into timestamps)
CreatedTime(t, str) == [t |-> t, str |-> str]

\* pd.DataFrame(columns=[...]) of load_metadata
EmptyMetadata == [columns |-> TRUE, rows |-> <<>>]

\* pd.read_json of a file that holds no record: a frame without columns
NoColumns == [columns |-> FALSE, rows |-> <<>>]

TheCache(f, md, mf) == [files |-> f, metadata |-> md, metadata_file |-> mf]

\* DataFrame.to_json(self.metadata_file, orient='records')
save_metadata(self) == [self EXCEPT !.metadata_file = <<self.metadata.rows>>]

\* the rows whose cache_key is none of keys, in their order
RowsWithout(rows, keys) ==
    LET F[n \in 0..Len(rows)] ==
            IF n = 0 THEN <<>>
            ELSE IF rows[n].cache_key \notin keys THEN Append(F[n - 1], rows[n])
            ELSE F[n - 1]
    IN  F[Len(rows)]

\* self.metadata[self.metadata['cache_key'] != cache_key]
WithoutKey(md, cache_key) == [md EXCEPT !.rows = RowsWithout(md.rows, {cache_key})]

\* pd.concat([self.metadata, new_entry], ignore_index=True)
Concat(md, new_entry) == [columns |-> TRUE, rows |-> Append(md.rows, new_entry)]

NewEntry(cache_key, file, clock) ==
    [cache_key |-> cache_key, created_time |-> CreatedTime(clock, TRUE),
     access_count |-> 1, file_size |-> GetSize(file)]

\* the replacement of the row without removing the old one
ReplaceRowKeepingOld(md, cache_key, new_entry) == Concat(md, new_entry)

\* lines 76-77 of save_to_cache: remove the row of the key, append the new one
ReplaceRow(md, cache_key, new_entry) ==
    Concat(WithoutKey(md, cache_key), new_entry)

is_cached(self, molecule, wavelength_min, wavelength_max) ==
    Exists(self.files[get_cache_path(
        generate_cache_key(molecule, wavelength_min, wavelength_max))])

\* a save that reports success whatever pickle.dump did
SaveReportingSuccess(self, molecule, wavelength_min, wavelength_max, data, clock, io) ==
    LET cache_key == generate_cache_key(molecule, wavelength_min, wavelength_max)
        cache_path == get_cache_path(cache_key)
        written == [self EXCEPT !.files[cache_path] = Pickled(data)]
    IN  IF io = "fails"
        THEN [cache |-> [self EXCEPT !.files[cache_path] = Truncated],
              value |-> TRUE]
        ELSE IF ~self.metadata.columns
        THEN [cache |-> written, value |-> FALSE]
        ELSE [cache |-> save_metadata(
                  [written EXCEPT !.metadata =
                      ReplaceRow(self.metadata, cache_key,
                                 NewEntry(cache_key, Pickled(data), clock))]),
              value |-> TRUE]

\* io = "fails": pickle.dump raises after open(.., 'wb') truncated the file
save_to_cache(self, molecule, wavelength_min, wavelength_max, data, clock, io) ==
    LET cache_key == generate_cache_key(molecule, wavelength_min, wavelength_max)
        cache_path == get_cache_path(cache_key)
        written == [self EXCEPT !.files[cache_path] = Pickled(data)]
    IN  IF io = "fails"
        THEN [cache |-> [self EXCEPT !.files[cache_path] = Truncated],
              value |-> FALSE]
        ELSE IF ~self.metadata.columns
        THEN \* KeyError: 'cache_key', caught
             [cache |-> written, value |-> FALSE]
        ELSE [cache |-> save_metadata(
                  [written EXCEPT !.metadata =
                      ReplaceRow(self.metadata, cache_key,
                                 NewEntry(cache_key, Pickled(data), clock))]),
              value |-> TRUE]

\* self.metadata.loc[mask, 'access_count'] += 1
CountAccess(md, cache_key) ==
    [md EXCEPT !.rows = [n \in 1..Len(md.rows) |->
        IF md.rows[n].cache_key = cache_key
        THEN [md.rows[n] EXCEPT !.access_count = @ + 1]
        ELSE md.rows[n]]]

HasRow(md, cache_key) ==
    \E n \in 1..Len(md.rows) : md.rows[n].cache_key = cache_key

load_from_cache(self, molecule, wavelength_min, wavelength_max) ==
    LET cache_key == generate_cache_key(molecule, wavelength_min, wavelength_max)
        file == self.files[get_cache_path(cache_key)]
    IN  IF file.kind # "pickle"
        THEN \* FileNotFoundError or EOFError, caught
             [cache |-> self, value |-> None]
        ELSE IF ~self.metadata.columns
        THEN \* KeyError: 'cache_key', caught
             [cache |-> self, value |-> None]
        ELSE IF HasRow(self.metadata, cache_key)
        THEN [cache |-> save_metadata(
                  [self EXCEPT !.metadata = CountAccess(@, cache_key)]),
              value |-> file.data]
        ELSE [cache |-> self, value |-> file.data]

\* load_metadata of a new instance.  pd.read_json parses created_time as
\* dates when the whole column converts; keep = TRUE is the build in which a
\* column that mixes strings with earlier timestamps is left as it is
load_metadata(self, keep) ==
    IF self.metadata_file = <<>>
    THEN [self EXCEPT !.metadata = EmptyMetadata]
    ELSE LET rows == self.metadata_file[1]
             mixed == \E n \in 1..Len(rows) : ~rows[n].created_time.str
         IN  IF Len(rows) = 0
             THEN [self EXCEPT !.metadata = NoColumns]
             ELSE [self EXCEPT !.metadata =
                     [columns |-> TRUE,
                      rows |-> [n \in 1..Len(rows) |->
                          IF mixed /\ keep THEN rows[n]
                          ELSE [rows[n] EXCEPT !.created_time.str = FALSE]]]]

\* sort_values(['access_count', 'created_time']): a stable sort
RowBefore(a, b) ==
    \/ a.access_count < b.access_count
    \/ a.access_count = b.access_count /\ a.created_time.t < b.created_time.t

RECURSIVE SortRows(_)
SortRows(rows) ==
    IF Len(rows) = 0 THEN <<>>
    ELSE LET first == CHOOSE n \in 1..Len(rows) :
                 /\ \A m \in 1..Len(rows) : ~RowBefore(rows[m], rows[n])
                 /\ \A m \in 1..(n - 1) : RowBefore(rows[n], rows[m])
             rest == [n \in 1..(Len(rows) - 1) |->
                         IF n < first THEN rows[n] ELSE rows[n + 1]]
         IN  <<rows[first]>> \o SortRows(rest)

\* lines 111-122: the rows past max_age_days are listed, the others are summed
RECURSIVE AgeLoop(_, _, _, _, _)
AgeLoop(rows, n, clock, max_age_days, acc) ==
    IF n > Len(rows) THEN acc
    ELSE IF ~rows[n].created_time.str
    THEN \* datetime.fromisoformat of a timestamp
         [acc EXCEPT !.error = "TypeError"]
    ELSE IF clock - rows[n].created_time.t > max_age_days
    THEN AgeLoop(rows, n + 1, clock, max_age_days,
                 [acc EXCEPT !.files_to_remove = Append(@, rows[n].cache_key)])
    ELSE AgeLoop(rows, n + 1, clock, max_age_days,
                 [acc EXCEPT !.total_size = @ + rows[n].file_size])

\* lines 129-134: every row of the sorted table, until the sum is in the limit
RECURSIVE SizeLoop(_, _, _, _, _)
SizeLoop(sorted, n, total_size, limit, files_to_remove) ==
    IF n > Len(sorted) \/ total_size <= limit THEN files_to_remove
    ELSE SizeLoop(sorted, n + 1, total_size - sorted[n].file_size, limit,
                  Append(files_to_remove, sorted[n].cache_key))

SeqRange(s) == {s[n] : n \in 1..Len(s)}

clean_cache(self, max_age_days, max_size_mb, clock) ==
    LET aged == AgeLoop(self.metadata.rows, 1, clock, max_age_days,
                        [files_to_remove |-> <<>>, total_size |-> 0,
                         error |-> "none"])
        limit == max_size_mb * BytesPerMB
        files_to_remove ==
            IF aged.total_size > limit
            THEN SizeLoop(SortRows(self.metadata.rows), 1, aged.total_size,
                          limit, aged.files_to_remove)
            ELSE aged.files_to_remove
        removed == {k \in SeqRange(files_to_remove) : Exists(self.files[k])}
    IN  IF aged.error # "none"
        THEN [cache |-> self, removed_count |-> 0, error |-> aged.error]
        ELSE IF ~self.metadata.columns
        THEN [cache |-> self, removed_count |-> 0, error |-> "KeyError"]
        ELSE [cache |-> save_metadata(
                  [self EXCEPT
                      !.files = [k \in DOMAIN self.files |->
                                    IF k \in removed THEN NoFile
                                    ELSE self.files[k]],
                      !.metadata.rows = RowsWithout(self.metadata.rows,
                                                SeqRange(files_to_remove))]),
              removed_count |-> Cardinality(removed),
              error |-> "none"]

\* the molecules OptimizedHitranAPI has an id for
molecule_ids ==
    {"H2O", "CO2", "O3", "N2O", "CO", "CH4", "O2", "NO", "SO2", "NO2", "NH3",
     "HNO3"}

\* the outcome of the query to the HITRAN server: <<the table>>, or <<>> when
\* the query raises
RemoteOutcomes == {<<data>> : data \in CacheData} \cup {<<>>}

DownloadResult(cache, value, queried, saved) ==
    [cache |-> cache, value |-> value, queried |-> queried, saved |-> saved]

\* a download that goes to the server whatever the cache holds
DownloadAlwaysQuerying(self, molecule, wavelength_min, wavelength_max, use_cache, remote, clock, io) ==
    LET stored == save_to_cache(self, molecule, wavelength_min,
                                wavelength_max, remote[1], clock, io)
    IN  IF wavelength_max.n = 0 \/ wavelength_min.n = 0
        THEN DownloadResult(self, None, FALSE, "none")
        ELSE IF molecule \notin molecule_ids
        THEN DownloadResult(self, None, FALSE, "none")
        ELSE IF remote = <<>>
        THEN DownloadResult(self, None, TRUE, "none")
        ELSE IF use_cache
        THEN DownloadResult(stored.cache, remote[1], TRUE,
                            IF stored.value THEN "True" ELSE "False")
        ELSE DownloadResult(self, remote[1], TRUE, "none")

\* a download that opens the cache file for writing before it asks the server
DownloadOpeningFirst(self, molecule, wavelength_min, wavelength_max, use_cache, remote, clock, io) ==
    LET hit == use_cache /\ is_cached(self, molecule, wavelength_min,
                                      wavelength_max)
        loaded == IF hit
                  THEN load_from_cache(self, molecule, wavelength_min,
                                       wavelength_max)
                  ELSE [cache |-> self, value |-> None]
        stored == save_to_cache(loaded.cache, molecule, wavelength_min,
                                wavelength_max, remote[1], clock, io)
        opened == [loaded.cache EXCEPT
                      !.files[get_cache_path(generate_cache_key(molecule,
                          wavelength_min, wavelength_max))] = Truncated]
    IN  IF hit /\ loaded.value # None
        THEN DownloadResult(loaded.cache, loaded.value, FALSE, "none")
        ELSE IF wavelength_max.n = 0 \/ wavelength_min.n = 0
        THEN DownloadResult(loaded.cache, None, FALSE, "none")
        ELSE IF molecule \notin molecule_ids
        THEN DownloadResult(loaded.cache, None, FALSE, "none")
        ELSE IF remote = <<>>
        THEN DownloadResult(IF use_cache THEN opened ELSE loaded.cache, None,
                            TRUE, "none")
        ELSE IF use_cache
        THEN DownloadResult(stored.cache, remote[1], TRUE,
                            IF stored.value THEN "True" ELSE "False")
        ELSE DownloadResult(loaded.cache, remote[1], TRUE, "none")

\* saved: "none" when save_to_cache was not called, else what it returned
download_molecule_data(self, molecule, wavelength_min, wavelength_max, use_cache, remote, clock, io) ==
    LET hit == use_cache /\ is_cached(self, molecule, wavelength_min,
                                      wavelength_max)
        loaded == IF hit
                  THEN load_from_cache(self, molecule, wavelength_min,
                                       wavelength_max)
                  ELSE [cache |-> self, value |-> None]
        stored == save_to_cache(loaded.cache, molecule, wavelength_min,
                                wavelength_max, remote[1], clock, io)
    IN  IF hit /\ loaded.value # None
        THEN DownloadResult(loaded.cache, loaded.value, FALSE, "none")
        ELSE IF wavelength_max.n = 0 \/ wavelength_min.n = 0
        THEN \* ZeroDivisionError in 1e7 / wavelength, caught
             DownloadResult(loaded.cache, None, FALSE, "none")
        ELSE IF molecule \notin molecule_ids
        THEN DownloadResult(loaded.cache, None, FALSE, "none")
        ELSE IF remote = <<>>
        THEN DownloadResult(loaded.cache, None, TRUE, "none")
        ELSE IF use_cache
        THEN DownloadResult(stored.cache, remote[1], TRUE,
                            IF stored.value THEN "True" ELSE "False")
        ELSE DownloadResult(loaded.cache, remote[1], TRUE, "none")

\* the lists download_multiple_molecules is called with
ParamLists == UNION {[1..n -> PoolRequests] : n \in 1..MaxWorkers}

PoolMolecules == {request.molecule : request \in PoolRequests}

\* a name the dictionary has no key for
NoEntry == [kind |-> "no entry", name |-> "no entry", bytes |-> 0]

IsCachedIn(self, request) ==
    is_cached(self, request.molecule, request.wavelength_min,
              request.wavelength_max)

\* the arguments clean_cache is called with: the defaults and tight limits
MaxAges == {0, 30}

MaxSizes == {1, 1000}

(***************************************************************************)
(* The state: the frame of the latest call of calculate_absorption_spectrum, *)
(* the outcome of the latest direct call of a line-shape function, and the *)
(* run of the mixture calculation.                                         *)
(***************************************************************************)
VARIABLES
    pc,                \* "idle", "loop" (in the for loop), "returned", "raised"
    args,              \* the arguments of the call, <<>> before the first call
    i,                 \* the number of lines the loop has processed
    absorption_coeff,  \* the accumulator array
    result,            \* <<the returned dictionary>>, <<>> when nothing was returned
    error,             \* the exception that left the call, "none" if none
    shape,             \* <<[fn, in, out]>>: the latest direct call of a line-shape
                       \* function, its arguments and its outcome; <<>> if none
    mpc,                   \* "idle", "species" (in the loop), "done", "failed"
    selected_molecules,    \* the selection of the run
    visited,               \* the number of species the loop has been through
    downloads,             \* the download outcome of each species visited
    individual_spectra,    \* the stored results: a sequence of [molecule, spectrum]
    combined_absorption,   \* the running sum of the species' absorption_coeff
    combined,              \* <<[transmittance, absorbance]>> of the mixture, or <<>>
    calls,                 \* history: the molecules the synthesizer was invoked for
    transforms,            \* history: how often Beer-Lambert was applied to the sum
    frame,                 \* the calls in flight side by side on one calculator:
                           \* frame[f] = [pc, args, i, result, error]
    heap,                  \* the accumulator arrays, by storage
    files,                 \* the cache directory: the content of each .pkl file
    metadata,              \* the metadata table of the HitranCache instance
    metadata_file,         \* cache_metadata.json: <<>> or <<the rows written>>
    now,                   \* the clock, in days
    cache_out,             \* <<the call that has just returned and its outcome>>
    saved,                 \* history: per key, the data of the latest save that
                           \* returned True, None once it was saved over or removed
    molecules_params,      \* the requests of the parallel download, in order
    worker,                \* the position of each submitted download
    results,               \* the dictionary download_multiple_molecules fills
    pool_pc                \* "idle", "running", "collecting", "returned"

corevars == <<pc, args, i, absorption_coeff, result, error, shape>>

mixvars == <<mpc, selected_molecules, visited, downloads, individual_spectra,
             combined_absorption, combined, calls, transforms>>

sessionvars == <<frame, heap>>

cachevars == <<files, metadata, metadata_file, now, cache_out, saved>>

poolvars == <<molecules_params, worker, results, pool_pc>>

vars == <<corevars, mixvars, sessionvars, cachevars, poolvars>>

Init ==
    /\ pc = "idle"
    /\ args = <<>>
    /\ i = 0
    /\ absorption_coeff = <<>>
    /\ result = <<>>
    /\ error = "none"
    /\ shape = <<>>
    /\ mpc = "idle"
    /\ selected_molecules = <<>>
    /\ visited = 0
    /\ downloads = <<>>
    /\ individual_spectra = <<>>
    /\ combined_absorption = <<>>
    /\ combined = <<>>
    /\ calls = <<>>
    /\ transforms = 0
    /\ frame = [f \in 1..MaxCalls |->
                   [pc |-> "idle", args |-> <<>>, i |-> 0, result |-> <<>>,
                    error |-> "none"]]
    /\ heap = [f \in 1..MaxCalls |-> <<>>]
    /\ files = [cache_key \in CacheKeys |-> NoFile]
    /\ metadata = EmptyMetadata
    /\ saved = [cache_key \in CacheKeys |-> None]
    /\ metadata_file = <<>>
    /\ now = 0
    /\ cache_out = <<>>
    /\ molecules_params = <<>>
    /\ worker = <<>>
    /\ results = [molecule \in PoolMolecules |-> NoEntry]
    /\ pool_pc = "idle"

\* entry of the call up to the head of the loop: the accumulator is zeroed
Call ==
    /\ pc = "idle"
    /\ shape = <<>>
    /\ \E a \in CallArgs :
        /\ args' = <<a>>
        /\ absorption_coeff' = ZerosLike(a.frequency_grid)
    /\ pc' = "loop"
    /\ i' = 0
    /\ result' = <<>>
    /\ error' = "none"
    /\ shape' = <<>>
    /\ UNCHANGED <<mixvars, sessionvars, cachevars, poolvars>>

\* one iteration of the loop over hitran_data
LoopStep ==
    /\ pc = "loop"
    /\ i < Len(args[1].hitran_data)
    /\ \E r \in {ProcessLine(absorption_coeff, args[1].hitran_data[i + 1], args[1])} :
           IF r.error # "none"
           THEN /\ pc' = "raised"
                /\ error' = r.error
                /\ UNCHANGED <<args, i, absorption_coeff>>
           ELSE /\ absorption_coeff' = r.acc
                /\ args' = <<ArgsAfterAdd(args[1], r.acc)>>
                /\ i' = i + 1
                /\ UNCHANGED <<pc, error>>
    /\ UNCHANGED <<result, shape>>
    /\ UNCHANGED <<mixvars, sessionvars, cachevars, poolvars>>

\* after the loop: the Beer-Lambert transform and the return
Return ==
    /\ pc = "loop"
    /\ i = Len(args[1].hitran_data)
    /\ result' = <<SpectrumResult(args[1].frequency_grid, absorption_coeff,
                                  args[1].path_length)>>
    /\ pc' = "returned"
    /\ UNCHANGED <<args, i, absorption_coeff, error, shape>>
    /\ UNCHANGED <<mixvars, sessionvars, cachevars, poolvars>>

\* a direct call of calculate_doppler_width, as debug_calculation.py makes it
DopplerCall ==
    /\ pc = "idle"
    /\ shape = <<>>
    /\ \E a \in DopplerArgs :
           shape' = <<[fn |-> "calculate_doppler_width", in |-> a,
                       out |-> Outcome(calculate_doppler_width(
                                   a.center_freq, a.temperature, a.molecular_mass))]>>
    /\ UNCHANGED <<pc, args, i, absorption_coeff, result, error>>
    /\ UNCHANGED <<mixvars, sessionvars, cachevars, poolvars>>

\* a direct call of calculate_lorentz_width
LorentzCall ==
    /\ pc = "idle"
    /\ shape = <<>>
    /\ \E a \in LorentzArgs :
           shape' = <<[fn |-> "calculate_lorentz_width", in |-> a,
                       out |-> Outcome(calculate_lorentz_width(
                                   a.pressure_broadening, a.pressure, a.temperature))]>>
    /\ UNCHANGED <<pc, args, i, absorption_coeff, result, error>>
    /\ UNCHANGED <<mixvars, sessionvars, cachevars, poolvars>>

\* a direct call of voigt_profile
VoigtCall ==
    /\ pc = "idle"
    /\ shape = <<>>
    /\ \E a \in VoigtArgs :
           shape' = <<[fn |-> "voigt_profile", in |-> a,
                       out |-> voigt_profile(a.frequency, a.center_freq, a.gamma_lorentz,
                                             a.gamma_doppler, a.numpy)]>>
    /\ UNCHANGED <<pc, args, i, absorption_coeff, result, error>>
    /\ UNCHANGED <<mixvars, sessionvars, cachevars, poolvars>>

\* the caller is done with the outcome of the call: the frame is dropped
Drop ==
    /\ pc \in {"returned", "raised"} \/ shape # <<>>
    /\ pc' = "idle"
    /\ args' = <<>>
    /\ i' = 0
    /\ absorption_coeff' = <<>>
    /\ result' = <<>>
    /\ error' = "none"
    /\ shape' = <<>>
    /\ UNCHANGED <<mixvars, sessionvars, cachevars, poolvars>>

Next == Call \/ LoopStep \/ Return \/ DopplerCall \/ LorentzCall \/ VoigtCall \/ Drop

Spec == Init /\ [][Next]_vars

\* the calculate button: the grid is made and the sum zeroed
MixStart ==
    /\ mpc = "idle"
    /\ \E sel \in Selections : selected_molecules' = sel
    /\ combined_absorption' = ZerosLike(GridSym)
    /\ individual_spectra' = <<>>
    /\ visited' = 0
    /\ downloads' = <<>>
    /\ combined' = <<>>
    /\ calls' = <<>>
    /\ transforms' = 0
    /\ mpc' = "species"
    /\ UNCHANGED <<corevars, sessionvars, cachevars, poolvars>>

\* one iteration of the loop over selected_molecules: the download, and for a
\* species with data the synthesis call, the store and the sum; an exception
\* of the call ends the run in the handler of the enclosing try
MixSpecies ==
    /\ mpc = "species"
    /\ visited < Len(selected_molecules)
    /\ \E hitran_data \in Downloads(selected_molecules[visited + 1]) :
         /\ downloads' = Append(downloads, hitran_data)
         /\ IF HasData(hitran_data)
            THEN \E a \in {SpeciesArgs(selected_molecules[visited + 1], hitran_data)} :
                 \E spectrum \in {calculate_absorption_spectrum(a)} :
                   /\ calls' = Append(calls, selected_molecules[visited + 1])
                   /\ IF spectrum.error # "none"
                      THEN /\ mpc' = "failed"
                           /\ UNCHANGED <<individual_spectra, combined_absorption, visited>>
                      ELSE /\ combined_absorption' =
                                Accumulate(combined_absorption,
                                           spectrum.value[1].absorption_coeff)
                           /\ individual_spectra' =
                                StoredAfterSum(
                                    Append(SharingGrid(
                                               individual_spectra,
                                               ArgsAfterAdd(
                                                   a, spectrum.value[1].absorption_coeff
                                               ).frequency_grid),
                                           [molecule |-> selected_molecules[visited + 1],
                                            spectrum |-> spectrum.value[1]]),
                                    combined_absorption')
                           /\ visited' = visited + 1
                           /\ UNCHANGED mpc
            ELSE /\ visited' = visited + 1
                 /\ UNCHANGED <<mpc, calls, individual_spectra, combined_absorption>>
    /\ UNCHANGED <<selected_molecules, combined, transforms>>
    /\ UNCHANGED <<corevars, sessionvars, cachevars, poolvars>>

\* after the loop: Beer-Lambert on the sum, and the results are stored
MixTransform ==
    /\ mpc = "species"
    /\ visited = Len(selected_molecules)
    /\ \E combined_transmittance \in
             {Transmittance(combined_absorption, Fin(30000, 0))} :
           combined' = <<[transmittance |-> combined_transmittance,
                          absorbance |-> Absorbance(combined_transmittance)]>>
    /\ transforms' = transforms + 1
    /\ mpc' = "done"
    /\ UNCHANGED <<selected_molecules, visited, downloads, individual_spectra,
                   combined_absorption, calls>>
    /\ UNCHANGED <<corevars, sessionvars, cachevars, poolvars>>

\* the results are cleared (the reset button), or the error was shown
MixDrop ==
    /\ mpc \in {"done", "failed"}
    /\ mpc' = "idle"
    /\ selected_molecules' = <<>>
    /\ visited' = 0
    /\ downloads' = <<>>
    /\ individual_spectra' = <<>>
    /\ combined_absorption' = <<>>
    /\ combined' = <<>>
    /\ calls' = <<>>
    /\ transforms' = 0
    /\ UNCHANGED <<corevars, sessionvars, cachevars, poolvars>>

MixNext == MixStart \/ MixSpecies \/ MixTransform \/ MixDrop

MixSpec == Init /\ [][MixNext]_vars

(***************************************************************************)
(* Several calls on one SpectrumCalculator, one after another in a frame   *)
(* and side by side in different frames.                                   *)
(***************************************************************************)

\* frame f enters calculate_absorption_spectrum; what the frame held before is
\* gone, and the accumulator is allocated and zeroed
SessionCall ==
    /\ \E f \in 1..MaxCalls :
        /\ frame[f].pc \in {"idle", "returned", "raised"}
        /\ \E a \in SessionArgs :
            /\ frame' = [frame EXCEPT ![f] =
                             [pc |-> "loop", args |-> <<a>>, i |-> 0,
                              result |-> <<>>, error |-> "none"]]
            /\ heap' = [heap EXCEPT ![Storage(f)] = ZerosLike(a.frequency_grid)]
    /\ UNCHANGED <<corevars, mixvars, cachevars, poolvars>>

\* one iteration of the loop in frame f
SessionStep ==
    /\ \E f \in 1..MaxCalls :
        /\ frame[f].pc = "loop"
        /\ frame[f].i < Len(frame[f].args[1].hitran_data)
        /\ \E r \in {ProcessLine(heap[Storage(f)],
                                  frame[f].args[1].hitran_data[frame[f].i + 1],
                                  frame[f].args[1])} :
               IF r.error # "none"
               THEN /\ frame' = [frame EXCEPT ![f].pc = "raised",
                                              ![f].error = r.error]
                    /\ UNCHANGED heap
               ELSE /\ heap' = [heap EXCEPT ![Storage(f)] = r.acc]
                    /\ frame' = [frame EXCEPT ![f].i = @ + 1]
    /\ UNCHANGED <<corevars, mixvars, cachevars, poolvars>>

\* the Beer-Lambert transform and the return in frame f
SessionReturn ==
    /\ \E f \in 1..MaxCalls :
        /\ frame[f].pc = "loop"
        /\ frame[f].i = Len(frame[f].args[1].hitran_data)
        /\ frame' = [frame EXCEPT
                         ![f].pc = "returned",
                         ![f].result = <<SpectrumResult(frame[f].args[1].frequency_grid,
                                                        heap[Storage(f)],
                                                        frame[f].args[1].path_length)>>]
    /\ UNCHANGED heap
    /\ UNCHANGED <<corevars, mixvars, cachevars, poolvars>>

SessionNext == SessionCall \/ SessionStep \/ SessionReturn

SessionSpec == Init /\ [][SessionNext]_vars

(***************************************************************************)
(* The cache in use by one caller at a time: every action is one call of a *)
(* method of HitranCache or of OptimizedHitranAPI, from entry to return.   *)
(***************************************************************************)
Self == TheCache(files, metadata, metadata_file)

NoRequest == Request("", Wavelength(0, FALSE), Wavelength(0, FALSE))

\* the record of a call: what was called, with what, and what came back
CallOut(op, request, use_cache, value, returned, queried, removed, raised, age, size) ==
    <<[op |-> op, request |-> request, use_cache |-> use_cache,
       value |-> value, returned |-> returned, queried |-> queried,
       removed |-> removed, error |-> raised, max_age_days |-> age,
       max_size_mb |-> size]>>

Install(cache) ==
    /\ files' = cache.files
    /\ metadata' = cache.metadata
    /\ metadata_file' = cache.metadata_file

SaveToCache ==
    \E request \in CacheRequests, data \in CacheData, io \in {"ok", "fails"} :
        \E r \in {save_to_cache(Self, request.molecule, request.wavelength_min,
                                request.wavelength_max, data, now, io)} :
            /\ Install(r.cache)
            /\ saved' = [saved EXCEPT ![KeyOf(request)] =
                            IF r.value THEN data ELSE None]
            /\ cache_out' = CallOut("save_to_cache", request, TRUE, None,
                                    r.value, FALSE, {}, "none", 0, 0)
            /\ UNCHANGED <<now, corevars, mixvars, sessionvars, poolvars>>

LoadFromCache ==
    \E request \in CacheRequests :
        /\ \A n \in 1..Len(metadata.rows) :
               metadata.rows[n].access_count < MaxAccess
        /\ \E r \in {load_from_cache(Self, request.molecule,
                         request.wavelength_min, request.wavelength_max)} :
            /\ Install(r.cache)
            /\ cache_out' = CallOut("load_from_cache", request, TRUE, r.value,
                                    TRUE, FALSE, {}, "none", 0, 0)
            /\ UNCHANGED <<now, saved, corevars, mixvars, sessionvars,
                           poolvars>>

CleanCache ==
    \E max_age_days \in MaxAges, max_size_mb \in MaxSizes :
        \E r \in {clean_cache(Self, max_age_days, max_size_mb, now)} :
            /\ Install(r.cache)
            /\ saved' = [k \in CacheKeys |->
                            IF Exists(files[k]) /\ ~Exists(r.cache.files[k])
                            THEN None ELSE saved[k]]
            /\ cache_out' = CallOut("clean_cache", NoRequest, TRUE, None,
                                    r.error = "none", FALSE,
                                    {k \in CacheKeys : Exists(files[k])
                                        /\ ~Exists(r.cache.files[k])},
                                    r.error, max_age_days, max_size_mb)
            /\ UNCHANGED <<now, corevars, mixvars, sessionvars, poolvars>>

DownloadCall(request, use_cache, remote, io) ==
    /\ \A n \in 1..Len(metadata.rows) :
           metadata.rows[n].access_count < MaxAccess
    /\ \E r \in {download_molecule_data(Self, request.molecule,
                     request.wavelength_min, request.wavelength_max,
                     use_cache, remote, now, io)} :
        /\ Install(r.cache)
        /\ saved' = [saved EXCEPT ![KeyOf(request)] =
                        IF r.saved = "True" THEN r.value
                        ELSE IF r.saved = "False" THEN None ELSE @]
        /\ cache_out' = CallOut("download_molecule_data", request, use_cache,
                                r.value, TRUE, r.queried, {}, "none", 0, 0)
        /\ UNCHANGED <<now, corevars, mixvars, sessionvars, poolvars>>

DownloadMoleculeData ==
    \E request \in DownloadRequests, use_cache \in BOOLEAN,
       remote \in RemoteOutcomes, io \in {"ok", "fails"} :
        DownloadCall(request, use_cache, remote, io)

\* the program is started again: a new HitranCache reads cache_metadata.json
NewInstance ==
    \E keep \in BOOLEAN :
        \E r \in {load_metadata(Self, keep)} :
            /\ Install(r)
            /\ cache_out' = CallOut("__init__", NoRequest, TRUE, None, TRUE,
                                    FALSE, {}, "none", 0, 0)
            /\ UNCHANGED <<now, saved, corevars, mixvars, sessionvars,
                           poolvars>>

\* a day passes: no call has just returned
Tick ==
    /\ now < MaxDays
    /\ now' = now + 1
    /\ cache_out' = <<>>
    /\ UNCHANGED <<files, metadata, metadata_file, saved, corevars, mixvars,
                   sessionvars, poolvars>>

CacheNext ==
    \/ SaveToCache
    \/ LoadFromCache
    \/ CleanCache
    \/ NewInstance
    \/ Tick

CacheSpec == Init /\ [][CacheNext]_vars

\* the cache behind the API: downloads, with direct saves and loads between
DownloadNext ==
    \/ DownloadMoleculeData
    \/ SaveToCache
    \/ LoadFromCache
    \/ NewInstance

DownloadSpec == Init /\ [][DownloadNext]_vars

(***************************************************************************)
(* download_multiple_molecules: every request is submitted to a thread of  *)
(* the pool and runs download_molecule_data with use_cache=True on the one *)
(* cache of the API.  The threads share self.cache.metadata and take no    *)
(* lock, so a thread may be switched out between any two of the steps      *)
(* below; an attribute is read in one step and assigned in another.        *)
(***************************************************************************)
Submitted ==
    [pc |-> "submitted", data |-> None, frame |-> EmptyMetadata,
     value |-> None, saved |-> FALSE]

Param(w) == molecules_params[w]

Finish(w, value, stored) ==
    worker' = [worker EXCEPT ![w].pc = "done", ![w].value = value,
                             ![w].saved = stored]

\* lines 198-207: the dictionary is created and every request is submitted
PoolStart ==
    /\ pool_pc = "idle"
    /\ \E params \in ParamLists :
        /\ molecules_params' = params
        /\ worker' = [w \in 1..Len(params) |-> Submitted]
    /\ results' = [molecule \in PoolMolecules |-> NoEntry]
    /\ pool_pc' = "running"
    /\ UNCHANGED <<corevars, mixvars, sessionvars, cachevars>>

\* lines 149-154 in thread w: the cache is asked first
WorkerCheck ==
    \E w \in 1..Len(worker) :
        /\ worker[w].pc = "submitted"
        /\ \A n \in 1..Len(metadata.rows) :
               metadata.rows[n].access_count < MaxAccess
        /\ \E r \in {load_from_cache(Self, Param(w).molecule,
                         Param(w).wavelength_min, Param(w).wavelength_max)} :
            IF IsCachedIn(Self, Param(w)) /\ r.value # None
            THEN /\ Install(r.cache)
                 /\ Finish(w, r.value, FALSE)
            ELSE /\ worker' = [worker EXCEPT ![w].pc = "query"]
                 /\ UNCHANGED <<files, metadata, metadata_file>>
        /\ UNCHANGED <<corevars, mixvars, sessionvars, now, cache_out, saved,
                       molecules_params, results, pool_pc>>

\* lines 157-178 in thread w: the query to the server
WorkerQuery ==
    \E w \in 1..Len(worker) :
        /\ worker[w].pc = "query"
        /\ \E remote \in RemoteOutcomes :
            IF \/ Param(w).wavelength_max.n = 0
               \/ Param(w).wavelength_min.n = 0
               \/ Param(w).molecule \notin molecule_ids
               \/ remote = <<>>
            THEN Finish(w, None, FALSE)
            ELSE worker' = [worker EXCEPT ![w].pc = "dump", ![w].data = remote[1]]
        /\ UNCHANGED <<corevars, mixvars, sessionvars, cachevars,
                       molecules_params, results, pool_pc>>

\* save_to_cache, open and pickle.dump
WorkerDump ==
    \E w \in 1..Len(worker) :
        /\ worker[w].pc = "dump"
        /\ \E io \in {"ok", "fails"} :
            IF io = "fails"
            THEN /\ files' = [files EXCEPT ![KeyOf(Param(w))] = Truncated]
                 /\ Finish(w, worker[w].data, FALSE)
            ELSE /\ files' = [files EXCEPT ![KeyOf(Param(w))] =
                                  Pickled(worker[w].data)]
                 /\ worker' = [worker EXCEPT ![w].pc = "filter"]
        /\ UNCHANGED <<corevars, mixvars, sessionvars, metadata, metadata_file,
                       now, cache_out, saved, molecules_params, results, pool_pc>>

\* save_to_cache, the right-hand side of the filter: self.metadata is read
WorkerFilterRead ==
    \E w \in 1..Len(worker) :
        /\ worker[w].pc = "filter"
        /\ IF metadata.columns
           THEN worker' = [worker EXCEPT ![w].pc = "filter_assign",
                              ![w].frame = WithoutKey(metadata, KeyOf(Param(w)))]
           ELSE Finish(w, worker[w].data, FALSE)
        /\ UNCHANGED <<corevars, mixvars, sessionvars, cachevars,
                       molecules_params, results, pool_pc>>

\* save_to_cache, the assignment of the filter: self.metadata is written
WorkerFilterAssign ==
    \E w \in 1..Len(worker) :
        /\ worker[w].pc = "filter_assign"
        /\ metadata' = worker[w].frame
        /\ worker' = [worker EXCEPT ![w].pc = "concat"]
        /\ UNCHANGED <<corevars, mixvars, sessionvars, files, metadata_file, now,
                       cache_out, saved, molecules_params, results, pool_pc>>

\* save_to_cache, the right-hand side of pd.concat: self.metadata is read
WorkerConcatRead ==
    \E w \in 1..Len(worker) :
        /\ worker[w].pc = "concat"
        /\ worker' = [worker EXCEPT ![w].pc = "concat_assign",
                         ![w].frame = Concat(metadata,
                             NewEntry(KeyOf(Param(w)), Pickled(worker[w].data),
                                      now))]
        /\ UNCHANGED <<corevars, mixvars, sessionvars, cachevars,
                       molecules_params, results, pool_pc>>

\* save_to_cache, the assignment of pd.concat: self.metadata is written
WorkerConcatAssign ==
    \E w \in 1..Len(worker) :
        /\ worker[w].pc = "concat_assign"
        /\ metadata' = worker[w].frame
        /\ worker' = [worker EXCEPT ![w].pc = "save_metadata"]
        /\ UNCHANGED <<corevars, mixvars, sessionvars, files, metadata_file, now,
                       cache_out, saved, molecules_params, results, pool_pc>>

\* save_metadata and the return of save_to_cache and of the download
WorkerSaveMetadata ==
    \E w \in 1..Len(worker) :
        /\ worker[w].pc = "save_metadata"
        /\ metadata_file' = <<metadata.rows>>
        /\ Finish(w, worker[w].data, TRUE)
        /\ UNCHANGED <<corevars, mixvars, sessionvars, files, metadata, now,
                       cache_out, saved, molecules_params, results, pool_pc>>

\* lines 210-217: as_completed hands over a finished future; its outcome goes
\* into the dictionary under the name of the molecule
Collect ==
    \E w \in 1..Len(worker) :
        /\ pool_pc = "running"
        /\ worker[w].pc = "done"
        /\ results' = [results EXCEPT ![Param(w).molecule] = worker[w].value]
        /\ worker' = [worker EXCEPT ![w].pc = "collected"]
        /\ UNCHANGED <<corevars, mixvars, sessionvars, cachevars,
                       molecules_params, pool_pc>>

\* line 220: the loop over as_completed is through and the pool is shut down
PoolReturn ==
    /\ pool_pc = "running"
    /\ \A w \in 1..Len(worker) : worker[w].pc = "collected"
    /\ pool_pc' = "returned"
    /\ UNCHANGED <<corevars, mixvars, sessionvars, cachevars,
                   molecules_params, worker, results>>

PoolNext ==
    \/ PoolStart
    \/ WorkerCheck
    \/ WorkerQuery
    \/ WorkerDump
    \/ WorkerFilterRead
    \/ WorkerFilterAssign
    \/ WorkerConcatRead
    \/ WorkerConcatAssign
    \/ WorkerSaveMetadata
    \/ Collect
    \/ PoolReturn

PoolSpec == Init /\ [][PoolNext]_vars

(***************************************************************************)
(* Properties of calculate_absorption_spectrum.                            *)
(***************************************************************************)
AllAre(array, v) == \A j \in 1..Len(array) : array[j] = v

\* r is the identity result on grid: zeros, ones, zeros, each of the grid's length
IdentityResult(r, grid) ==
    /\ Len(r.absorption_coeff) = Len(grid) /\ AllAre(r.absorption_coeff, Zero)
    /\ Len(r.transmittance) = Len(grid) /\ AllAre(r.transmittance, One)
    /\ Len(r.absorbance) = Len(grid) /\ AllAre(r.absorbance, Zero)

\* the call in progress has valid arguments / has ended
CallValid == pc # "idle" /\ ValidArgs(args[1])
CallEnded == pc \in {"returned", "raised"}

\* the value is a float >= 0 (a closed form a / ln(10) with a >= 0 included)
NonNeg(x) ==
    \/ x.k \in {"fin", "ln10"} /\ x.m >= 0
    \/ IsInf(x) /\ x.m > 0
    \/ x.k = "exp"

\* the value is a float in [0, 1]: 0, 1, or exp(a) with a < 0
InUnit(x) ==
    \/ IsFin(x) /\ FLeq(Zero, x) /\ FLeq(x, One)
    \/ x.k = "exp" /\ x.m < 0

\* C1: with valid grid and conditions, a call with an empty line list never
\* raises and returns absorption_coeff all zeros, transmittance all ones and
\* absorbance all zeros, at every grid point.
C1_EmptyLineList ==
    (CallValid /\ args[1].hitran_data = <<>>) =>
        /\ pc # "raised"
        /\ pc = "loop" => AllAre(absorption_coeff, Zero)
        /\ pc = "returned" => IdentityResult(result[1], args[1].frequency_grid)

C1_Witness ==
    /\ pc = "returned" /\ ValidArgs(args[1])
    /\ args[1].hitran_data = <<>>
    /\ args[1].frequency_grid = GridSym
    /\ args[1].concentration # Zero
    /\ IdentityResult(result[1], GridSym)

\* C2: with valid lines and conditions, a call with concentration = 0 never
\* raises and returns the result of the empty line list (zeros, ones, zeros),
\* whatever the length of the line list.
C2_ZeroConcentration ==
    (CallValid /\ args[1].concentration = Zero) =>
        /\ pc # "raised"
        /\ pc = "loop" => AllAre(absorption_coeff, Zero)
        /\ pc = "returned" =>
              /\ IdentityResult(result[1], args[1].frequency_grid)
              /\ result[1] =
                   calculate_absorption_spectrum(
                       [args[1] EXCEPT !.hitran_data = <<>>]).value[1]

C2_Witness ==
    /\ pc = "returned" /\ ValidArgs(args[1])
    /\ args[1].concentration = Zero
    /\ args[1].hitran_data = <<LineA, LineB>>
    /\ args[1].frequency_grid = GridSym
    /\ IdentityResult(result[1], GridSym)

\* C3: with valid inputs the accumulator is >= 0 at every grid point after
\* each line is added, and the returned arrays satisfy absorption_coeff >= 0,
\* 0 <= transmittance <= 1 and absorbance >= 0 at every grid point.
C3_NonNegative ==
    CallValid =>
        /\ pc # "raised"
        /\ \A j \in 1..Len(absorption_coeff) :
              IsFin(absorption_coeff[j]) /\ absorption_coeff[j].m >= 0
        /\ pc = "returned" =>
              \A j \in 1..Len(args[1].frequency_grid) :
                  /\ IsFin(result[1].absorption_coeff[j])
                  /\ result[1].absorption_coeff[j].m >= 0
                  /\ InUnit(result[1].transmittance[j])
                  /\ NonNeg(result[1].absorbance[j])

C3_Witness ==
    /\ pc = "returned" /\ ValidArgs(args[1])
    /\ Len(args[1].hitran_data) = MaxLines
    /\ \A j \in 1..Len(args[1].frequency_grid) :
          /\ result[1].absorption_coeff[j].m > 0
          /\ result[1].transmittance[j].k = "exp"
          /\ result[1].absorbance[j].k = "ln10" /\ result[1].absorbance[j].m > 0

\* a precondition of those the call is to validate at entry is violated
EntryInvalid(a) ==
    \/ ~(IsFin(a.temperature) /\ a.temperature.m > 0)
    \/ ~(IsFin(MolecularMass(a.molecule)) /\ MolecularMass(a.molecule).m > 0)
    \/ \E n \in 1..Len(a.hitran_data) :
          "nu" \in a.hitran_data[n].keys /\ a.hitran_data[n].nu.m <= 0
    \/ ~Monotonic(a.frequency_grid)

\* C4: a call whose temperature is <= 0, whose molecular mass is <= 0, one of
\* whose lines has a center frequency <= 0, or whose grid is empty or not
\* monotonic, raises before any line is processed and returns no result.
C4_EntryValidation ==
    (pc # "idle" /\ EntryInvalid(args[1])) => (pc # "returned" /\ i = 0)

\* the latest direct call was a call of fn
DirectCall(fn) == shape # <<>> /\ shape[1].fn = fn

\* C5: calculate_doppler_width called with temperature <= 0 or
\* molecular_mass <= 0 raises instead of returning a value.
C5_DopplerValidation ==
    (/\ DirectCall("calculate_doppler_width")
     /\ \/ shape[1].in.temperature.m <= 0
        \/ shape[1].in.molecular_mass.m <= 0)
    => shape[1].out.error # "none"

\* the loop is about to process a line of zero intensity, under valid arguments
AtZeroIntensityLine ==
    /\ pc = "loop" /\ ValidArgs(args[1])
    /\ i < Len(args[1].hitran_data)
    /\ args[1].hitran_data[i + 1].sw = Zero

\* every line of the list has zero intensity, and there is one
AllZeroIntensity(lines) ==
    Len(lines) >= 1 /\ \A n \in 1..Len(lines) : lines[n].sw = Zero

\* C6: under valid arguments, processing a line of zero intensity raises
\* nothing and leaves the accumulator unchanged at every grid point, and a
\* list of zero-intensity lines yields the result of the empty list (zeros,
\* ones, zeros).
C6_ZeroIntensity ==
    /\ [][AtZeroIntensityLine =>
            /\ pc' = "loop" /\ i' = i + 1 /\ error' = "none"
            /\ absorption_coeff' = absorption_coeff]_vars
    /\ []((/\ pc = "returned" /\ ValidArgs(args[1])
           /\ AllZeroIntensity(args[1].hitran_data))
          => /\ IdentityResult(result[1], args[1].frequency_grid)
             /\ result[1] = calculate_absorption_spectrum(
                                [args[1] EXCEPT !.hitran_data = <<>>]).value[1])

C6_Witness ==
    /\ pc = "loop" /\ ValidArgs(args[1])
    /\ args[1].hitran_data = <<LineA, LineZ>>
    /\ args[1].frequency_grid = GridSym
    /\ i = 2
    /\ \A j \in 1..3 : absorption_coeff[j].m > 0
    /\ absorption_coeff = ProcessLine(ZerosLike(GridSym), LineA, args[1]).acc

C6_WitnessAllZero ==
    /\ pc = "returned" /\ ValidArgs(args[1])
    /\ args[1].hitran_data = <<LineZ, LineZ>>
    /\ args[1].concentration # Zero
    /\ IdentityResult(result[1], args[1].frequency_grid)

\* C7: when the processing of a line fails (a record lacks one of the fields
\* nu, sw, gamma_air), the call raises to its caller: it goes on to no further
\* line, and it returns no result, partial or other.
C7_ErrorPropagates ==
    /\ pc \in {"loop", "returned"} =>
          \A n \in 1..i : MissingKey(args[1].hitran_data[n]) = "none"
    /\ pc = "returned" => i = Len(args[1].hitran_data) /\ error = "none"
    /\ pc = "raised" =>
          /\ result = <<>> /\ error # "none"
          /\ MissingKey(args[1].hitran_data[i + 1]) # "none" => error = "KeyError"
          /\ calculate_absorption_spectrum(args[1]) = [error |-> error, value |-> <<>>]

C7_Witness ==
    /\ pc = "raised" /\ error = "KeyError" /\ result = <<>>
    /\ args[1].hitran_data = <<LineA, LineNoSw>>
    /\ args[1].frequency_grid = GridSym
    /\ args[1].temperature \in ValidTemperatures
    /\ args[1].concentration # Zero
    /\ i = 1
    /\ \A j \in 1..3 : absorption_coeff[j].m > 0

\* the value is a finite float
Finite(x) == x.k \in {"fin", "exp", "ln10"}

\* the Doppler width the call computes for `line`
DopplerWidthOf(a, line) ==
    calculate_doppler_width(line.nu, a.temperature, MolecularMass(a.molecule))

\* voigt_profile with doppler_width = 0 raises or returns no finite element
VoigtZeroWidthNeverFinite ==
    (DirectCall("voigt_profile") /\ shape[1].in.gamma_doppler = Zero) =>
        \/ shape[1].out.error # "none"
        \/ \A j \in 1..Len(shape[1].out.value) : ~Finite(shape[1].out.value[j])

\* C8: voigt_profile with doppler_width = 0 fails or yields NaN/inf, never a
\* finite profile, and a call of calculate_absorption_spectrum that reaches it
\* with a zero width (on a grid of at least one point) raises instead of
\* returning a result.
C8_ZeroDopplerWidth ==
    /\ VoigtZeroWidthNeverFinite
    /\ (pc = "returned" /\ Len(args[1].frequency_grid) >= 1) =>
          \A n \in 1..Len(args[1].hitran_data) :
              DopplerWidthOf(args[1], args[1].hitran_data[n]) # Zero

\* the factors the concentration is scaled by; those of RadixFactors are powers
\* of the radix, by which a float is scaled without rounding (as a binary
\* float is halved or doubled)
Factors == {Fin(3, 0)}
RadixFactors == {Fin(1, 1)}

\* x and y are finite and differ by at most a thousandth of |y|: equal up to
\* the rounding of the operations that made them
Close(x, y) ==
    /\ IsFin(x) /\ IsFin(y)
    /\ FLeq(FAbs(FSub(x, y)), FMul(FAbs(y), Fin(1, -3)))

\* the absorption_coeff the call returns with the concentration scaled by k
ScaledAbsorption(a, k) ==
    calculate_absorption_spectrum(
        [a EXCEPT !.concentration = FMul(k, @)]).value[1].absorption_coeff

\* C10: with the line list and the other conditions fixed, the returned
\* absorption_coeff for concentration k * c is k times the one for c at every
\* grid point: up to rounding for every factor k, and exactly when scaling
\* by k does not round.
C10_LinearInConcentration ==
    []((pc = "returned" /\ ValidArgs(args[1])) =>
        /\ \A k \in Factors :
              \E scaled \in {ScaledAbsorption(args[1], k)} :
                  /\ Len(scaled) = Len(args[1].frequency_grid)
                  /\ \A j \in 1..Len(scaled) :
                        Close(scaled[j], FMul(k, result[1].absorption_coeff[j]))
        /\ \A k \in RadixFactors :
              ScaledAbsorption(args[1], k)
              = [j \in 1..Len(args[1].frequency_grid) |->
                    FMul(k, result[1].absorption_coeff[j])])

C10_Witness ==
    /\ pc = "returned" /\ ValidArgs(args[1])
    /\ args[1].hitran_data = <<LineA, LineB>>
    /\ args[1].frequency_grid = GridSym
    /\ args[1].concentration = Fin(2, -3)
    /\ \A j \in 1..3 : result[1].absorption_coeff[j].m > 0

(***************************************************************************)
(* Properties of the mixture calculation.                                  *)
(***************************************************************************)
\* how often x occurs in seq
Count(seq, x) == Cardinality({n \in 1..Len(seq) : seq[n] = x})

\* the species among the first n selected whose download had data, in order
RECURSIVE WithData(_, _, _)
WithData(sel, dl, n) ==
    IF n = 0 THEN <<>>
    ELSE IF HasData(dl[n]) THEN Append(WithData(sel, dl, n - 1), sel[n])
    ELSE WithData(sel, dl, n - 1)

\* the elementwise sum, over the species among the first n selected whose
\* download had data, of the absorption_coeff the synthesizer returns for them
RECURSIVE SumOfSpecies(_, _, _)
SumOfSpecies(sel, dl, n) ==
    IF n = 0 THEN [j \in 1..Len(GridSym) |-> Zero]
    ELSE IF HasData(dl[n])
         THEN [j \in 1..Len(GridSym) |->
                  FAdd(SumOfSpecies(sel, dl, n - 1)[j],
                       calculate_absorption_spectrum(
                           SpeciesArgs(sel[n], dl[n])).value[1].absorption_coeff[j])]
    ELSE SumOfSpecies(sel, dl, n - 1)

\* Beer-Lambert was applied to the sum of all the species, and only to it
TransformedOnce ==
    /\ transforms = (IF mpc = "done" THEN 1 ELSE 0)
    /\ mpc = "done" =>
          /\ visited = Len(selected_molecules)
          /\ combined # <<>>
          /\ combined[1].transmittance =
                [j \in 1..Len(GridSym) |->
                    FExp(FMul(FNeg(combined_absorption[j]), Fin(30000, 0)))]
          /\ combined[1].absorbance =
                [j \in 1..Len(GridSym) |-> FNeg(FLog10(combined[1].transmittance[j]))]
    /\ mpc # "done" => combined = <<>>

\* C9 as stated: in a mixture run the synthesizer is invoked once per selected
\* species, the combined array is the elementwise sum of the species' arrays,
\* and Beer-Lambert is applied exactly once, after every species was added.
C9_OncePerSpecies ==
    /\ mpc = "done" =>
          \A n \in 1..Len(selected_molecules) :
              Count(calls, selected_molecules[n]) = 1
    /\ mpc \in {"species", "done"} =>
          combined_absorption = SumOfSpecies(selected_molecules, downloads, visited)
    /\ TransformedOnce

\* C9 amended: in a mixture run the synthesizer is invoked exactly once for
\* each selected species whose download returned at least one line, in the
\* order of the selection, and not at all for the others; the combined array
\* is the elementwise sum of the arrays of the species invoked so far; and
\* Beer-Lambert is applied exactly once, to the sum, after every selected
\* species was visited.
C9_Mixture ==
    /\ mpc # "idle" =>
          calls = WithData(selected_molecules, downloads, Len(downloads))
    /\ mpc \in {"species", "done"} =>
          /\ Len(downloads) = visited
          /\ combined_absorption = SumOfSpecies(selected_molecules, downloads, visited)
    /\ TransformedOnce

C9_Witness ==
    /\ mpc = "done" /\ transforms = 1
    /\ selected_molecules = <<"H2O", "CO2">>
    /\ calls = <<"H2O", "CO2">>
    /\ Len(individual_spectra) = 2
    /\ \A j \in 1..Len(GridSym) :
          /\ combined_absorption[j].m > 0
          /\ combined_absorption[j] # individual_spectra[1].spectrum.absorption_coeff[j]
          /\ combined_absorption[j] # individual_spectra[2].spectrum.absorption_coeff[j]
          /\ combined[1].transmittance[j].k = "exp"

(***************************************************************************)
(* The arguments of a call, as the caller sees them afterwards.            *)
(***************************************************************************)

\* C11: calculate_absorption_spectrum never modifies its inputs: from the entry
\* of a call to the moment its outcome is dropped, no step changes an element
\* of the frequency grid or a field of a line record, or any other argument
C11_InputsUnmodified ==
    [][pc # "idle" /\ pc' # "idle" => args' = args]_vars

\* a call has returned after adding a line to an accumulator that is neither
\* zero any more nor equal to the grid
C11_Witness ==
    /\ pc = "returned"
    /\ i >= 1
    /\ Len(absorption_coeff) >= 1
    /\ \E j \in 1..Len(absorption_coeff) : absorption_coeff[j] # Zero
    /\ absorption_coeff # args[1].frequency_grid
    /\ result[1].frequency = args[1].frequency_grid

(***************************************************************************)
(* Calls that share a SpectrumCalculator.                                  *)
(***************************************************************************)

\* C12: the synthesizer keeps no state between invocations: each call starts
\* from an all-zero accumulator of the grid's length, private to that call, and
\* two calls with equal arguments return equal arrays, whatever calls were made
\* before them in the same frame or run side by side in another: the result is
\* a function of the call's own arguments
C12_Stateless ==
    /\ \A f \in 1..MaxCalls :
           frame[f].pc = "loop" /\ frame[f].i = 0
           => /\ Len(heap[Storage(f)]) = Len(frame[f].args[1].frequency_grid)
              /\ AllAre(heap[Storage(f)], Zero)
    /\ \A f, g \in 1..MaxCalls :
           /\ frame[f].pc = "returned"
           /\ frame[g].pc = "returned"
           /\ frame[f].args = frame[g].args
           => frame[f].result = frame[g].result
    /\ \A f \in 1..MaxCalls :
           frame[f].pc = "returned"
           => frame[f].result = calculate_absorption_spectrum(frame[f].args[1]).value

\* two calls with equal arguments and a non-zero spectrum have both returned
C12_Witness ==
    /\ frame[1].pc = "returned"
    /\ frame[2].pc = "returned"
    /\ frame[1].args = frame[2].args
    /\ Len(frame[1].args[1].hitran_data) = 2
    /\ frame[1].result[1].absorption_coeff[1] # Zero
    /\ frame[1].result = frame[2].result

(***************************************************************************)
(* The results the mixture calculation keeps.                              *)
(***************************************************************************)

\* C13: a result is not changed once it is returned: while a mixture run goes
\* on, no step (the sum into the mixture total, a later synthesis call on the
\* same grid, the final transform) changes a per-species result already stored
C13_ResultsKept ==
    [][mpc' # "idle"
       => /\ Len(individual_spectra') >= Len(individual_spectra)
          /\ \A n \in 1..Len(individual_spectra) :
                 individual_spectra'[n] = individual_spectra[n]]_vars

\* a run is over in which two species were synthesized and summed, the total
\* differing from both stored spectra
C13_Witness ==
    /\ mpc = "done"
    /\ Len(individual_spectra) = 2
    /\ combined_absorption # individual_spectra[1].spectrum.absorption_coeff
    /\ combined_absorption # individual_spectra[2].spectrum.absorption_coeff
    /\ individual_spectra[1].spectrum.absorption_coeff[1] # Zero
    /\ individual_spectra[1].spectrum.frequency = GridSym

(***************************************************************************)
(* The molar mass behind the Doppler widths of a call.                     *)
(***************************************************************************)

\* C14: the Doppler width of every line of a call is computed from the molar
\* mass resolved for the species the caller passed, and the core does not
\* choose or substitute one: once a line has been processed, the species has a
\* molar mass of its own and that is the mass the widths were computed from
C14_CallerResolvedMass ==
    (pc \in {"loop", "returned"} /\ i >= 1)
    => /\ args[1].molecule \in DOMAIN molecular_masses
       /\ \A n \in 1..i :
              DopplerWidthOf(args[1], args[1].hitran_data[n])
              = calculate_doppler_width(args[1].hitran_data[n].nu,
                                        args[1].temperature,
                                        molecular_masses[args[1].molecule])

(***************************************************************************)
(* The shape of the dictionary returned.                                   *)
(***************************************************************************)

\* C15: the result returned holds exactly four arrays, frequency,
\* absorption_coeff, transmittance and absorbance, each of the length of the
\* grid, and frequency equals the input grid element by element
C15_ResultShape ==
    pc = "returned"
    => /\ Len(result) = 1
       /\ DOMAIN result[1]
            = {"frequency", "absorption_coeff", "transmittance", "absorbance"}
       /\ \A key \in DOMAIN result[1] :
              DOMAIN result[1][key] = 1..Len(args[1].frequency_grid)
       /\ \A j \in 1..Len(args[1].frequency_grid) :
              result[1].frequency[j] = args[1].frequency_grid[j]

\* a call over a grid of three points and two lines has returned
C15_Witness ==
    /\ pc = "returned"
    /\ Len(args[1].frequency_grid) = 3
    /\ i = 2
    /\ Len(result[1].absorbance) = 3
    /\ result[1].absorption_coeff # result[1].frequency

(***************************************************************************)
(* Absorbance against the optical depth absorption_coeff * path_length.    *)
(***************************************************************************)

\* the absolute error allowed between two floats taken as equal
AbsoluteTolerance == Fin(1, -15)

\* x / ln(10), in the closed form the logarithm of an exponential has
OverLn10(x) == [k |-> "ln10", m |-> x.m, e |-> x.e]

\* `absorbance` equals depth / ln(10) within tolerance: to the last digit, or
\* both within the absolute tolerance of zero
Consistent(absorbance, depth) ==
    \/ absorbance = OverLn10(depth)
    \/ absorbance = Zero /\ FLess(depth, AbsoluteTolerance)

\* the grid points of the returned result whose absorption_coeff is finite
\* and not negative, the path length being positive
DepthPoints ==
    IF pc = "returned" /\ IsFin(args[1].path_length) /\ args[1].path_length.m > 0
    THEN {j \in 1..Len(result[1].absorption_coeff) :
             IsFin(result[1].absorption_coeff[j])
             /\ result[1].absorption_coeff[j].m >= 0}
    ELSE {}

\* absorption_coeff * path_length at grid point j of the returned result
Depth(j) == FMul(result[1].absorption_coeff[j], args[1].path_length)

C16_WitnessTiny ==
    \E j \in DepthPoints :
        /\ Depth(j) # Zero
        /\ result[1].transmittance[j] = One
        /\ result[1].absorbance[j] = Zero

(***************************************************************************)
(* Monotonicity of the two widths.                                         *)
(***************************************************************************)

\* the arguments of a width function lie in its physical domain
LorentzDomain(a) ==
    /\ a.temperature.m > 0
    /\ a.pressure.m >= 0
    /\ a.pressure_broadening.m >= 0

DopplerDomain(a) ==
    /\ a.temperature.m >= 0
    /\ a.molecular_mass.m > 0
    /\ a.center_freq.m >= 0

\* the width returned is a float not above the float `other`
NotAbove(out, other) ==
    /\ out.error = "none"
    /\ IsFin(out.value[1])
    /\ IsFin(other)
    /\ FLeq(out.value[1], other)

\* C17: calculate_lorentz_width is non-decreasing in pressure for fixed
\* temperature and broadening coefficient, and calculate_doppler_width is
\* non-decreasing in temperature for fixed center frequency and molecular mass
C17_Monotone ==
    /\ (DirectCall("calculate_lorentz_width") /\ LorentzDomain(shape[1].in))
       => \A b \in LorentzArgs :
             /\ b.pressure_broadening = shape[1].in.pressure_broadening
             /\ b.temperature = shape[1].in.temperature
             /\ FLeq(shape[1].in.pressure, b.pressure)
             => NotAbove(shape[1].out,
                         calculate_lorentz_width(b.pressure_broadening, b.pressure,
                                                 b.temperature))
    /\ (DirectCall("calculate_doppler_width") /\ DopplerDomain(shape[1].in))
       => \A b \in DopplerArgs :
             /\ b.center_freq = shape[1].in.center_freq
             /\ b.molecular_mass = shape[1].in.molecular_mass
             /\ FLeq(shape[1].in.temperature, b.temperature)
             => NotAbove(shape[1].out,
                         calculate_doppler_width(b.center_freq, b.temperature,
                                                 b.molecular_mass))

\* a Lorentz width was computed that a higher pressure makes strictly larger
C17_Witness ==
    /\ DirectCall("calculate_lorentz_width")
    /\ LorentzDomain(shape[1].in)
    /\ shape[1].in.pressure = Fin(5, -1)
    /\ \E b \in LorentzArgs :
           /\ b.pressure_broadening = shape[1].in.pressure_broadening
           /\ b.temperature = shape[1].in.temperature
           /\ FLess(shape[1].in.pressure, b.pressure)
           /\ FLess(shape[1].out.value[1],
                    calculate_lorentz_width(b.pressure_broadening, b.pressure,
                                            b.temperature))

\* a Doppler width was computed that a higher temperature makes strictly larger
C17_WitnessDoppler ==
    /\ DirectCall("calculate_doppler_width")
    /\ DopplerDomain(shape[1].in)
    /\ shape[1].in.temperature = Fin(200, 0)
    /\ \E b \in DopplerArgs :
           /\ b.center_freq = shape[1].in.center_freq
           /\ b.molecular_mass = shape[1].in.molecular_mass
           /\ FLess(shape[1].in.temperature, b.temperature)
           /\ FLess(shape[1].out.value[1],
                    calculate_doppler_width(b.center_freq, b.temperature,
                                            b.molecular_mass))

(***************************************************************************)
(* The spectrum of a single line.                                          *)
(***************************************************************************)

\* valid lines and conditions, on any grid that is not empty
ValidOnAnyGrid(a) ==
    Len(a.frequency_grid) >= 1 /\ ValidArgs([a EXCEPT !.frequency_grid = GridOne])

\* the distance of grid point j from the center of the only line of the call
Distance(j) == FAbs(FSub(args[1].frequency_grid[j], args[1].hitran_data[1].nu))

\* a call on a single line whose center lies inside the grid has returned
SingleLineInside ==
    /\ pc = "returned"
    /\ ValidOnAnyGrid(args[1])
    /\ Len(args[1].hitran_data) = 1
    /\ \E j, n \in 1..Len(args[1].frequency_grid) :
           /\ FLeq(args[1].frequency_grid[j], args[1].hitran_data[1].nu)
           /\ FLeq(args[1].hitran_data[1].nu, args[1].frequency_grid[n])

\* C18: for a single line whose center lies inside the grid, absorption_coeff
\* is largest at the grid point nearest the center and takes equal values at
\* grid points equidistant from the center
C18_PeakAndSymmetry ==
    SingleLineInside
    => \A j, n \in 1..Len(args[1].frequency_grid) :
          /\ IsFin(result[1].absorption_coeff[j])
          /\ FLeq(Distance(j), Distance(n))
             => FLeq(result[1].absorption_coeff[n], result[1].absorption_coeff[j])
          /\ Distance(j) = Distance(n)
             => result[1].absorption_coeff[j] = result[1].absorption_coeff[n]

\* the line at the middle of the three-point grid: the two outer points are
\* equidistant from it and carry less than the middle one
C18_Witness ==
    /\ SingleLineInside
    /\ Len(args[1].frequency_grid) = 3
    /\ Distance(1) = Distance(3)
    /\ Distance(2) = Zero
    /\ FLess(result[1].absorption_coeff[1], result[1].absorption_coeff[2])
    /\ result[1].absorption_coeff[1] = result[1].absorption_coeff[3]
    /\ result[1].absorption_coeff[1] # Zero

\* the line at the edge of the grid: the values fall with the distance
C18_WitnessEdge ==
    /\ SingleLineInside
    /\ Len(args[1].frequency_grid) = 3
    /\ Distance(3) = Zero
    /\ FLess(result[1].absorption_coeff[1], result[1].absorption_coeff[2])
    /\ FLess(result[1].absorption_coeff[2], result[1].absorption_coeff[3])

(***************************************************************************)
(* The accumulator as a sum over the lines.                                *)
(***************************************************************************)

\* the profile of `line` over the grid of the call, under its conditions
ProfileOf(a, line) ==
    voigt_profile(a.frequency_grid, line.nu,
                  calculate_lorentz_width(line.gamma_air, a.pressure, a.temperature),
                  DopplerWidthOf(a, line), TRUE).value

\* the sum over the first n lines, in the order of the list, of
\* intensity * concentration * profile * 1e20 at every grid point
RECURSIVE SumOverLines(_, _)
SumOverLines(a, n) ==
    IF n = 0 THEN [j \in 1..Len(a.frequency_grid) |-> Zero]
    ELSE Only({[j \in 1..Len(a.frequency_grid) |->
                   FAdd(before[j],
                        FMul(FMul(FMul(a.hitran_data[n].sw, a.concentration),
                                  profile[j]),
                             ScalingFactor))] :
               before \in {SumOverLines(a, n - 1)},
               profile \in {ProfileOf(a, a.hitran_data[n])}})

\* C19: the accumulator starts at zero with the length of the grid; the
\* Beer-Lambert transform is applied only once the last line has been added,
\* to the accumulator as it then is; and for valid lines and conditions the
\* absorption_coeff returned is, at every grid point, the sum over all lines
\* of intensity * concentration * profile * 1e20
C19_SumOverLines ==
    [](/\ (pc = "loop" /\ i = 0)
          => /\ Len(absorption_coeff) = Len(args[1].frequency_grid)
             /\ AllAre(absorption_coeff, Zero)
       /\ pc = "loop" => result = <<>>
       /\ pc = "returned"
          => /\ i = Len(args[1].hitran_data)
             /\ result[1].absorption_coeff = absorption_coeff
             /\ result[1].transmittance
                  = Transmittance(absorption_coeff, args[1].path_length)
       /\ (pc = "returned" /\ ValidOnAnyGrid(args[1]))
          => result[1].absorption_coeff
               = SumOverLines(args[1], Len(args[1].hitran_data)))

\* a call over two lines of non-zero intensity has returned a non-zero sum
C19_Witness ==
    /\ pc = "returned"
    /\ ValidOnAnyGrid(args[1])
    /\ args[1].hitran_data = <<LineA, LineB>>
    /\ args[1].concentration # Zero
    /\ Len(args[1].frequency_grid) = 3
    /\ result[1].absorption_coeff # SumOverLines(args[1], 1)
    /\ result[1].absorption_coeff[1] # Zero

(***************************************************************************)
(* Every line reaches every grid point.                                    *)
(***************************************************************************)

\* the center of `line` lies beyond one end of the grid
OutsideGrid(line, grid) ==
    \/ \A j \in 1..Len(grid) : FLess(grid[j], line.nu)
    \/ \A j \in 1..Len(grid) : FLess(line.nu, grid[j])

\* C20: no windowing or cutoff is applied: under valid lines and conditions
\* each pass of the loop takes the next line of the list, whether or not its
\* center lies inside the grid, and adds its contribution, with a profile
\* above zero, at every grid point; the call returns only after the last line
C20_NoCutoff ==
    [][/\ (pc = "loop" /\ ValidOnAnyGrid(args[1]) /\ i < Len(args[1].hitran_data))
          => /\ pc' = "loop"
             /\ i' = i + 1
             /\ \E profile \in {ProfileOf(args[1], args[1].hitran_data[i + 1])} :
                    \A j \in 1..Len(args[1].frequency_grid) :
                        /\ IsFin(profile[j]) /\ profile[j].m > 0
                        /\ absorption_coeff'[j]
                             = FAdd(absorption_coeff[j],
                                    FMul(FMul(FMul(args[1].hitran_data[i + 1].sw,
                                                   args[1].concentration),
                                              profile[j]),
                                         ScalingFactor))
       /\ pc' = "returned" => pc = "loop" /\ i = Len(args[1].hitran_data)]_vars

\* a call has returned whose last line lies outside the grid and has raised
\* the accumulator at every grid point
C20_Witness ==
    /\ pc = "returned"
    /\ ValidOnAnyGrid(args[1])
    /\ args[1].hitran_data = <<LineA, LineFar>>
    /\ OutsideGrid(LineFar, args[1].frequency_grid)
    /\ Len(args[1].frequency_grid) = 3
    /\ \A j \in 1..3 :
           FLess(SumOverLines(args[1], 1)[j], result[1].absorption_coeff[j])

(***************************************************************************)
(* The order of the lines.                                                 *)
(***************************************************************************)

\* the lists that hold the lines of `lines` in another order
Reorderings(lines) ==
    {[n \in 1..Len(lines) |-> lines[p[n]]] :
        p \in {q \in [1..Len(lines) -> 1..Len(lines)] :
                  \A m, n \in 1..Len(lines) : m # n => q[m] # q[n]}} \ {lines}

\* the list is in ascending order of center frequency and, at one center, of
\* intensity: the representative of its reorderings
Ascending(lines) ==
    \A n \in 1..Len(lines) - 1 :
        \/ FLess(lines[n].nu, lines[n + 1].nu)
        \/ lines[n].nu = lines[n + 1].nu /\ FLeq(lines[n].sw, lines[n + 1].sw)

\* C21: the accumulation does not depend on the order of the lines: for valid
\* lines and conditions, the absorption_coeff returned for a line list and the
\* one returned for any reordering of it agree at every grid point up to
\* rounding (each list being compared with its reorderings through the one in
\* ascending order)
C21_OrderIndependent ==
    []((/\ pc = "returned"
        /\ ValidOnAnyGrid(args[1])
        /\ Ascending(args[1].hitran_data))
       => \A lines \in Reorderings(args[1].hitran_data) :
             \E other \in {calculate_absorption_spectrum(
                               [args[1] EXCEPT !.hitran_data = lines])} :
                 /\ other.error = "none"
                 /\ \A j \in 1..Len(args[1].frequency_grid) :
                        Close(other.value[1].absorption_coeff[j],
                              result[1].absorption_coeff[j]))

\* a call over two different lines of non-zero intensity has returned, and the
\* list has a reordering
C21_Witness ==
    /\ pc = "returned"
    /\ ValidOnAnyGrid(args[1])
    /\ args[1].hitran_data = <<LineA, LineB>>
    /\ Ascending(args[1].hitran_data)
    /\ Reorderings(args[1].hitran_data) = {<<LineB, LineA>>}
    /\ args[1].concentration # Zero
    /\ Len(args[1].frequency_grid) = 3
    /\ result[1].absorption_coeff # SumOverLines(args[1], 1)

(***************************************************************************)
(* Species without data in the mixture calculation.                        *)
(***************************************************************************)

\* the download came back as None or without a line
NoLines(hitran_data) == hitran_data.none \/ Len(hitran_data.lines) = 0

\* the species among the first n selected whose download brought lines
RECURSIVE Supplied(_, _, _)
Supplied(sel, dl, n) ==
    IF n = 0 THEN <<>>
    ELSE IF NoLines(dl[n]) THEN Supplied(sel, dl, n - 1)
    ELSE Append(Supplied(sel, dl, n - 1), sel[n])

\* the elementwise sum of the absorption_coeff of the first n stored results
RECURSIVE StoredSum(_, _)
StoredSum(stored, n) ==
    IF n = 0 THEN [j \in 1..Len(GridSym) |-> Zero]
    ELSE Only({[j \in 1..Len(GridSym) |->
                   FAdd(before[j], stored[n].spectrum.absorption_coeff[j])] :
               before \in {StoredSum(stored, n - 1)}})

\* C22: in the mixture calculation a species whose download returns None or
\* an empty line list is skipped: the step stores nothing, leaves the combined
\* absorption as it was and goes on to the next species; the results stored
\* are those of exactly the species that returned data, later ones included,
\* and the combined absorption is their elementwise sum
C22_SkipWithoutData ==
    /\ [][(/\ mpc = "species"
            /\ visited < Len(selected_molecules)
            /\ Len(downloads') = visited + 1
            /\ NoLines(downloads'[visited + 1]))
           => /\ mpc' = "species"
              /\ visited' = visited + 1
              /\ combined_absorption' = combined_absorption
              /\ individual_spectra' = individual_spectra
              /\ calls' = calls]_vars
    /\ [](mpc \in {"species", "done"}
           => /\ Len(downloads) = visited
              /\ [n \in 1..Len(individual_spectra) |-> individual_spectra[n].molecule]
                   = Supplied(selected_molecules, downloads, visited)
              /\ combined_absorption
                   = StoredSum(individual_spectra, Len(individual_spectra)))

\* a run is over in which the first species was skipped and the second one,
\* processed after it, makes up the combined absorption
C22_Witness ==
    /\ mpc = "done"
    /\ Len(selected_molecules) = 2
    /\ NoLines(downloads[1])
    /\ ~NoLines(downloads[2])
    /\ Len(individual_spectra) = 1
    /\ individual_spectra[1].molecule = selected_molecules[2]
    /\ combined_absorption = individual_spectra[1].spectrum.absorption_coeff
    /\ combined_absorption[1] # Zero

(***************************************************************************)
(* A molecule the molar-mass table lacks.                                  *)
(***************************************************************************)

\* a call was made for a molecule absent from the table, with valid lines and
\* conditions
UnlistedMolecule ==
    /\ pc # "idle"
    /\ args[1].molecule \notin DOMAIN molecular_masses
    /\ ValidOnAnyGrid(args[1])

\* C23: a call for a molecule name absent from the internal molar-mass table
\* does not raise: the Doppler width of every line is computed from 18.015
\* g/mol, so the call returns what it returns for H2O, whose mass that is
C23_DefaultMolarMass ==
    UnlistedMolecule
    => /\ pc # "raised"
       /\ \A n \in 1..Len(args[1].hitran_data) :
              DopplerWidthOf(args[1], args[1].hitran_data[n])
              = calculate_doppler_width(args[1].hitran_data[n].nu,
                                        args[1].temperature, Fin(18015, -3))
       /\ pc = "returned"
          => <<result[1]>> = calculate_absorption_spectrum(
                                 [args[1] EXCEPT !.molecule = "H2O"]).value

\* a call for SF6 over a line of non-zero intensity has returned, and the
\* same call for CO2 returns another spectrum
C23_Witness ==
    /\ UnlistedMolecule
    /\ pc = "returned"
    /\ args[1].molecule = "SF6"
    /\ args[1].hitran_data = <<LineA>>
    /\ args[1].concentration # Zero
    /\ Len(args[1].frequency_grid) = 3
    /\ <<result[1]>> # calculate_absorption_spectrum(
                           [args[1] EXCEPT !.molecule = "CO2"]).value

(***************************************************************************)
(* The cache round trip and the metadata table.                            *)
(***************************************************************************)
IsCached(request) ==
    is_cached(Self, request.molecule, request.wavelength_min,
              request.wavelength_max)

Loaded(request) ==
    load_from_cache(Self, request.molecule, request.wavelength_min,
                    request.wavelength_max).value

\* C24: once save_to_cache has returned True for a key, is_cached is True for
\* that key and load_from_cache returns the data that was saved, whatever is
\* saved under other keys, until the key is saved again or clean_cache removes
\* its file.
C24_RoundTrip ==
    \A request \in CacheRequests :
        saved[KeyOf(request)] # None =>
            /\ IsCached(request)
            /\ Loaded(request) = saved[KeyOf(request)]

\* the table of H2O is still served after a later save under the key of CH4
C24_Witness ==
    /\ saved[KeyOf(ReqH2O)] = TableData("small", 1)
    /\ saved[KeyOf(ReqCH4)] = TableData("large", 2)
    /\ cache_out # <<>>
    /\ cache_out[1].op = "save_to_cache"
    /\ cache_out[1].request = ReqCH4
    /\ cache_out[1].returned
    /\ Loaded(ReqH2O) = TableData("small", 1)

\* C25: after any sequence of saves and loads on one cache the metadata table
\* holds at most one row per cache_key.
C25_OneRowPerKey ==
    \A m, n \in 1..Len(metadata.rows) :
        m # n => metadata.rows[m].cache_key # metadata.rows[n].cache_key

\* a key saved after the other one had been loaded: two rows, two keys
C25_Witness ==
    /\ Len(metadata.rows) = 2
    /\ metadata.rows[1].cache_key = KeyOf(ReqCH4)
    /\ metadata.rows[1].access_count = 2
    /\ metadata.rows[2].cache_key = KeyOf(ReqH2O)
    /\ cache_out[1].op = "save_to_cache"
    /\ cache_out[1].request = ReqH2O
    /\ cache_out[1].returned

(***************************************************************************)
(* clean_cache.                                                            *)
(***************************************************************************)
RECURSIVE SumOfSizes(_, _)
SumOfSizes(rows, n) ==
    IF n = 0 THEN 0 ELSE SumOfSizes(rows, n - 1) + rows[n].file_size

CleanReturned ==
    /\ cache_out # <<>>
    /\ cache_out[1].op = "clean_cache"
    /\ cache_out[1].returned

\* C30: after clean_cache(max_age_days, max_size_mb) returns, no row of the
\* metadata is older than max_age_days and the file sizes of the rows that
\* remain add up to at most max_size_mb * 1024 * 1024, whatever the cache held
\* before the call.
C30_CleanWithinLimits ==
    CleanReturned =>
        /\ \A n \in 1..Len(metadata.rows) :
               now - metadata.rows[n].created_time.t <= cache_out[1].max_age_days
        /\ SumOfSizes(metadata.rows, Len(metadata.rows))
               <= cache_out[1].max_size_mb * BytesPerMB

(***************************************************************************)
(* download_molecule_data and the cache.                                   *)
(***************************************************************************)
Downloaded(out) == out # <<>> /\ out[1].op = "download_molecule_data"

CacheUntouched ==
    /\ files' = files
    /\ metadata' = metadata
    /\ metadata_file' = metadata_file

\* C26: with use_cache=True download_molecule_data asks the server only when
\* the key is not cached or the cached load returned None; on a hit whose load
\* succeeds it returns the cached data without asking the server and without
\* rewriting the cache file; with use_cache=False it neither reads nor writes
\* the cache.
C26_RemoteOnlyOnMiss ==
    [][Downloaded(cache_out') =>
        /\ (cache_out'[1].use_cache /\ cache_out'[1].queried) =>
               (~IsCached(cache_out'[1].request)
                   \/ Loaded(cache_out'[1].request) = None)
        /\ (cache_out'[1].use_cache /\ IsCached(cache_out'[1].request)
               /\ Loaded(cache_out'[1].request) # None) =>
               /\ cache_out'[1].value = Loaded(cache_out'[1].request)
               /\ ~cache_out'[1].queried
               /\ files' = files
        /\ ~cache_out'[1].use_cache =>
               /\ CacheUntouched
               /\ cache_out'[1].value # None => cache_out'[1].queried]_vars

\* a hit: the table saved earlier came back, counted, and nobody asked the server
C26_Witness ==
    /\ Downloaded(cache_out)
    /\ cache_out[1].use_cache
    /\ ~cache_out[1].queried
    /\ cache_out[1].request = ReqH2O
    /\ cache_out[1].value = TableData("large", 2)
    /\ \E n \in 1..Len(metadata.rows) :
           /\ metadata.rows[n].cache_key = KeyOf(ReqH2O)
           /\ metadata.rows[n].access_count = 2

\* C27: download_molecule_data never raises to its caller: for a molecule it
\* has no id for, and for any exception of the query to the server, it returns
\* None and writes nothing to the cache, so is_cached keeps its value.
C27_NoneOnFailure ==
    [][Downloaded(cache_out') =>
        \A remote \in RemoteOutcomes, io \in {"ok", "fails"} :
            DownloadCall(cache_out'[1].request, cache_out'[1].use_cache,
                         remote, io) =>
                /\ cache_out'[1].error = "none"
                /\ (\/ cache_out'[1].request.molecule \notin molecule_ids
                    \/ cache_out'[1].queried /\ remote = <<>>) =>
                       /\ cache_out'[1].value = None
                       /\ CacheUntouched]_vars

\* the server failed while a broken file of the key lay in the cache: None came
\* back and the file is as it was
C27_Witness ==
    /\ Downloaded(cache_out)
    /\ cache_out[1].use_cache
    /\ cache_out[1].queried
    /\ cache_out[1].request = ReqH2O
    /\ cache_out[1].value = None
    /\ files[KeyOf(ReqH2O)] = Truncated
    /\ files[KeyOf(ReqCH4)].kind = "pickle"

(***************************************************************************)
(* The parallel download.                                                  *)
(***************************************************************************)
DistinctMolecules ==
    \A v, w \in 1..Len(molecules_params) :
        v # w => Param(v).molecule # Param(w).molecule

\* C28: when download_multiple_molecules has run n distinct uncached molecules
\* in parallel and every download and every save succeeded, the shared
\* metadata holds a row for each of the n keys: no interleaving of the saves
\* loses a row.
C28_EveryKeyHasRow ==
    (/\ pool_pc = "returned"
     /\ DistinctMolecules
     /\ \A w \in 1..Len(worker) : worker[w].saved) =>
        \A w \in 1..Len(worker) : HasRow(metadata, KeyOf(Param(w)))

\* C29: download_multiple_molecules returns only after every submitted
\* download has finished, and for every requested (molecule, wl_min, wl_max)
\* the dictionary holds, under the name of the molecule, the outcome of that
\* request, in whatever order the downloads complete.
C29_OutcomePerRequest ==
    pool_pc = "returned" =>
        \A w \in 1..Len(worker) :
            /\ worker[w].pc = "collected"
            /\ results[Param(w).molecule] = worker[w].value

====
